---- MODULE Spec2Model ----
(***************************************************************************)
(* A model of the therapy-session simulator: the turn loop of main.py      *)
(* (run_session_loop), the speaker selection and dialogue generation of    *)
(* conversation_engine.py, the trigger detection of trigger_system.py and  *)
(* the scoring / decision / generation policy of intervention_system.py.   *)
(*                                                                         *)
(* Texts are kept up to what the code reads from them: the keyword hits,   *)
(* the character and word counts, and the role labels a text contains      *)
(* (the history is scanned by substring).  A history entry is the f-string *)
(* "<name>: <dialogue>", kept as the pair of its two parts.                *)
(***************************************************************************)
EXTENDS Integers, Sequences, FiniteSets, TLC

(***************************************************************************)
(* Bounds of the model.                                                    *)
(***************************************************************************)
\* max_turns, the number of turns of a session; the program draws it from
\* SESSION_MIN_TURNS..SESSION_MAX_TURNS = 25..35 (config.py:49-50).
MaxTurns == 7
\* At most this many entries of a transcript hold a text other than the
\* plain reply (a text with keywords, role labels, or a failure text).
MaxSpecialTexts == 1
\* The longest history a function is called with on its own.
MaxHistory == 6
\* max_turns of the sessions that are followed from the start of main().
MaxTurnsAfterSetup == 1
\* The most lines of a post-session text, and entries of a baseline.
MaxLines == 3

(***************************************************************************)
(* Program constants (config.py).                                          *)
(***************************************************************************)
INTERVENTION_THRESHOLD == 70
QUANTITATIVE_CONSECUTIVE_THRESHOLD == 6
QUANTITATIVE_WORD_THRESHOLD == 100
TIME_SILENCE_THRESHOLD == 30

CONVERSATION_STRUCTURES == {"Sequential", "LLM Only", "LLM with Triggers"}
TRIGGER_TYPES ==
    {"Direct Intervention Request", "Time-based Analysis", "Semantic Analysis",
     "Quantitative Analysis", "All Triggers"}
FIRST_SPEAKER_OPTIONS == {"Patient A", "Patient B", "Random"}

speakers == <<"Therapist", "Patient A", "Patient B">>
Patients == {"Patient A", "Patient B"}

(***************************************************************************)
(* Texts.  labels: the role labels occurring in the text as substrings.    *)
(* help / harm: some keyword of DIRECT_INTERVENTION_KEYWORDS /             *)
(* SEMANTIC_SELF_HARM_KEYWORDS occurs (case-insensitively); escKw: how     *)
(* many keywords of SEMANTIC_ESCALATION_KEYWORDS occur; upper, len, bangs, *)
(* words: uppercase characters, characters, '!' characters, whitespace-    *)
(* delimited tokens.  fallback: the text was built by the except branch of *)
(* generate_agent_turn.                                                    *)
(***************************************************************************)
MentionSets == {{}, {"Therapist:"}, {"Patient A"}, {"Patient B"}}

PlainReply ==
    [fallback |-> FALSE, labels |-> {}, help |-> FALSE, harm |-> FALSE,
     escKw |-> 0, upper |-> 1, len |-> 60, bangs |-> 0, words |-> 12]
\* "can you help us talk about this?"
HelpReply == [PlainReply EXCEPT !.help = TRUE]
\* "I want to end it all and I hate you!!"
CrisisReply ==
    [PlainReply EXCEPT !.harm = TRUE, !.escKw = 1, !.upper = 2, !.len = 37,
                       !.bangs = 2, !.words = 10]
\* a reply of 101 words
LongReply == [PlainReply EXCEPT !.words = 101, !.len = 600, !.upper = 5]
\* the empty string
EmptyText == [PlainReply EXCEPT !.upper = 0, !.len = 0, !.words = 0]

\* "I HATE this, I am so angry!!"
EscalationReply ==
    [PlainReply EXCEPT !.escKw = 2, !.upper = 6, !.len = 28, !.bangs = 2, !.words = 7]
\* "sometimes I want to disappear"
HarmReply == [PlainReply EXCEPT !.harm = TRUE, !.len = 29, !.words = 5]
\* a reply of 101 words that asks for help, holds a self-harm keyword and
\* shows escalation
EverySignalReply ==
    [LongReply EXCEPT !.help = TRUE, !.harm = TRUE, !.escKw = 2, !.bangs = 2]

\* "you never listen, this is ridiculous"
TwoKeywordReply == [PlainReply EXCEPT !.escKw = 2, !.upper = 0, !.len = 36, !.words = 6]
\* a reply of exactly 100 words
HundredWordReply == [PlainReply EXCEPT !.words = 100, !.len = 590, !.upper = 5]

WithLabels(t, ls) == [t EXCEPT !.labels = ls]

\* What the dialogue collaborator may answer (message.content, stripped).
ReplyTexts ==
    {PlainReply, HelpReply, CrisisReply, LongReply, WithLabels(HelpReply, {"Patient A"})}
    \cup {WithLabels(PlainReply, ls) : ls \in MentionSets}
\* What str(e) of a raised exception may be: "Connection error.", or the body
\* of a gateway's error page (140 words).
ErrorPlain == [PlainReply EXCEPT !.len = 17, !.words = 2]
ErrorPage == [PlainReply EXCEPT !.upper = 20, !.len = 900, !.words = 140]
ErrorTexts == {ErrorPlain, ErrorPage}
\* What the intervention collaborator may answer.
FacilitatorTexts == {WithLabels(PlainReply, ls) : ls \in MentionSets} \cup {EmptyText}

\* f"[Unable to generate response: {e}]"  (conversation_engine.py:65)
FallbackText(e) ==
    [e EXCEPT !.fallback = TRUE,
              !.upper = e.upper + 1,
              !.len = e.len + 31,
              !.words = 4 + (IF e.words = 0 THEN 1 ELSE e.words)]

(***************************************************************************)
(* State.                                                                  *)
(***************************************************************************)
VARIABLES
    all_personas,                  \* assets["personas"] (main.py:348)
    participants,                  \* main.py:409, parameter of run_session_loop
    conversation_structure,        \* main.py:360, parameter of run_session_loop
    selected_trigger,              \* participants['selected_trigger_type']
    first_speaker,                 \* main.py:369
    max_turns,                     \* main.py:53
    session_transcript,            \* output_json["session_transcript"]
    trigger_log,                   \* output_json["trigger_log"]
    intervention_scores,           \* output_json["intervention_scores"]
    intervention_count,            \* output_json["intervention_count"]
    scored_interventions_rejected, \* output_json["scored_interventions_rejected"]
    conversation_history,          \* main.py:52
    current_turn_number,           \* main.py:54
    current_speaker,               \* main.py:55
    dialogue,                      \* locals of the last iteration (main.py:88-230)
    triggers_detected,
    intervention_score,
    intervention,
    intervention_occurred,
    pc,                            \* "setup", "setup_failed" (raised), "loop",
                                   \* "done" (returned), "crashed" (raised)
    call,                          \* a function called on its own, and its arguments
    result                         \* what the call returned

vars ==
    <<all_personas, participants, conversation_structure, selected_trigger, first_speaker, max_turns,
      session_transcript, trigger_log, intervention_scores, intervention_count,
      scored_interventions_rejected, conversation_history, current_turn_number,
      current_speaker, dialogue, triggers_detected, intervention_score,
      intervention, intervention_occurred, pc, call, result>>

configVars ==
    <<all_personas, participants, conversation_structure, selected_trigger,
      first_speaker, max_turns>>
callVars == <<call, result>>

(***************************************************************************)
(* History entries and the substring tests the code makes on them.         *)
(***************************************************************************)
\* f"{speaker_name_for_history}: {dialogue}" (main.py:140) and
\* f"AI Facilitator: {intervention}" (main.py:215)
full_log_entry(name, text) == [name |-> name, text |-> text]

\* `s in entry`: s occurs in "<name>: " or in the text.  The name part of a
\* patient's entry is "Patient A (<persona name>)"; the facilitator's is
\* "AI Facilitator", which holds none of the labels looked for.
Contains(entry, s) ==
    \/ entry.name = "Therapist" /\ s \in {"Therapist:", "Therapist"}
    \/ entry.name \in Patients /\ s = entry.name
    \/ s \in entry.text.labels
    \/ s = "Therapist" /\ "Therapist:" \in entry.text.labels

\* conversation_history[-n:] if len(conversation_history) >= n else conversation_history
LastN(h, n) == IF Len(h) >= n THEN SubSeq(h, Len(h) - n + 1, Len(h)) ELSE h

(***************************************************************************)
(* trigger_system.py                                                       *)
(***************************************************************************)
detect_help_request(message) == message.help

detect_emotional_escalation(message) ==
    LET keywords == message.escKw
        caps == IF message.len > 0 /\ 10 * message.upper > 3 * message.len THEN 1 ELSE 0
        marks == IF message.bangs >= 2 THEN 1 ELSE 0
    IN  keywords + caps + marks >= 2

\* Faulty variant, for comparison: no keyword is ever matched.
detect_self_harm_language_no_keyword(message) == FALSE

detect_self_harm_language(message) == message.harm

\* Faulty variant, for comparison: every matching entry is counted, also
\* those before a mismatch.
count_consecutive_messages_no_break(history, speaker) ==
    Cardinality({i \in DOMAIN history : Contains(history[i], speaker)})

RECURSIVE count_consecutive_messages(_, _)
count_consecutive_messages(history, speaker) ==
    IF history = <<>> THEN 0
    ELSE IF Contains(history[Len(history)], speaker)
         THEN 1 + count_consecutive_messages(SubSeq(history, 1, Len(history) - 1), speaker)
         ELSE 0

\* Faulty variant, for comparison: one word too few is counted.
count_words_one_short(message) == IF message.words = 0 THEN 0 ELSE message.words - 1

count_words(message) == message.words

\* Faulty variant, for comparison: the long silence is drawn for every speaker.
simulate_silence_duration_always_long(history, speaker) == 15..45

\* The set of durations random.randint may return.
simulate_silence_duration(history, speaker) ==
    LET recent_messages == LastN(history, 3)
        speaker_messages ==
            {i \in DOMAIN recent_messages : Contains(recent_messages[i], speaker)}
    IN  IF speaker_messages = {} THEN 15..45 ELSE 1..10

\* Faulty variant, for comparison: the help request is looked for whatever
\* the selector is.
detect_triggers_always_direct(history, speaker, message, selected, silence_duration) ==
    LET direct ==
            IF detect_help_request(message)
            THEN <<[type |-> "Direct Intervention Request", subtype |-> "Help Request",
                    value |-> 1]>>
            ELSE <<>>
        temporal ==
            IF selected \in {"Time-based Analysis", "All Triggers"}
               /\ silence_duration > TIME_SILENCE_THRESHOLD
            THEN <<[type |-> "Time-based Analysis", subtype |-> "Extended Silence",
                    value |-> silence_duration]>>
            ELSE <<>>
        semantic ==
            IF selected \in {"Semantic Analysis", "All Triggers"}
            THEN IF detect_self_harm_language(message)
                 THEN <<[type |-> "Semantic Analysis", subtype |-> "Self-Harm Language",
                         value |-> 1, severity |-> "CRITICAL"]>>
                 ELSE IF detect_emotional_escalation(message)
                      THEN <<[type |-> "Semantic Analysis",
                              subtype |-> "Emotional Escalation", value |-> 1]>>
                      ELSE <<>>
            ELSE <<>>
        consecutive == count_consecutive_messages(history, speaker)
        dominance ==
            IF selected \in {"Quantitative Analysis", "All Triggers"}
               /\ consecutive >= QUANTITATIVE_CONSECUTIVE_THRESHOLD
            THEN <<[type |-> "Quantitative Analysis", subtype |-> "Message Dominance",
                    value |-> consecutive]>>
            ELSE <<>>
        word_count == count_words(message)
        overload ==
            IF selected \in {"Quantitative Analysis", "All Triggers"}
               /\ word_count > QUANTITATIVE_WORD_THRESHOLD
            THEN <<[type |-> "Quantitative Analysis", subtype |-> "Information Overload",
                    value |-> word_count]>>
            ELSE <<>>
    IN  direct \o temporal \o semantic \o dominance \o overload

\* silence_duration is the value simulate_silence_duration returned in this call
\* (read only when the time-based modality is evaluated).
detect_triggers(history, speaker, message, selected, silence_duration) ==
    LET direct ==
            IF selected \in {"Direct Intervention Request", "All Triggers"}
               /\ detect_help_request(message)
            THEN <<[type |-> "Direct Intervention Request", subtype |-> "Help Request",
                    value |-> 1]>>
            ELSE <<>>
        temporal ==
            IF selected \in {"Time-based Analysis", "All Triggers"}
               /\ silence_duration > TIME_SILENCE_THRESHOLD
            THEN <<[type |-> "Time-based Analysis", subtype |-> "Extended Silence",
                    value |-> silence_duration]>>
            ELSE <<>>
        semantic ==
            IF selected \in {"Semantic Analysis", "All Triggers"}
            THEN IF detect_self_harm_language(message)
                 THEN <<[type |-> "Semantic Analysis", subtype |-> "Self-Harm Language",
                         value |-> 1, severity |-> "CRITICAL"]>>
                 ELSE IF detect_emotional_escalation(message)
                      THEN <<[type |-> "Semantic Analysis",
                              subtype |-> "Emotional Escalation", value |-> 1]>>
                      ELSE <<>>
            ELSE <<>>
        consecutive == count_consecutive_messages(history, speaker)
        dominance ==
            IF selected \in {"Quantitative Analysis", "All Triggers"}
               /\ consecutive >= QUANTITATIVE_CONSECUTIVE_THRESHOLD
            THEN <<[type |-> "Quantitative Analysis", subtype |-> "Message Dominance",
                    value |-> consecutive]>>
            ELSE <<>>
        word_count == count_words(message)
        overload ==
            IF selected \in {"Quantitative Analysis", "All Triggers"}
               /\ word_count > QUANTITATIVE_WORD_THRESHOLD
            THEN <<[type |-> "Quantitative Analysis", subtype |-> "Information Overload",
                    value |-> word_count]>>
            ELSE <<>>
    IN  direct \o temporal \o semantic \o dominance \o overload

\* The draws the call may make: one when the time-based modality is evaluated.
SilenceDraws(history, speaker, selected) ==
    IF selected \in {"Time-based Analysis", "All Triggers"}
    THEN simulate_silence_duration(history, speaker)
    ELSE {0}

(***************************************************************************)
(* conversation_engine.py                                                  *)
(***************************************************************************)
\* What one call of the dialogue collaborator does: it answers a text, or it
\* raises an exception e with str(e) = text.
ApiOk(text) == [ok |-> TRUE, text |-> text]
ApiRaise(text) == [ok |-> FALSE, text |-> text]

\* attempts: what the collaborator would do on the first, second, ... call.
\* One try, and the except branch returns the failure text at once.
generate_agent_turn(attempts) ==
    IF attempts[1].ok
    THEN [text |-> attempts[1].text, calls |-> 1]
    ELSE [text |-> FallbackText(attempts[1].text), calls |-> 1]

\* "I'm sorry, there seems to be a technical issue. Let's take a brief pause."
TechnicalIssueText ==
    [PlainReply EXCEPT !.fallback = TRUE, !.upper = 2, !.len = 73, !.words = 14]

\* The earlier version of the function (backup/demo1.py): up to 3 tries, then
\* the fixed text.
demo1_generate_agent_turn(attempts) ==
    LET succeeded == {i \in 1..3 : attempts[i].ok}
        first == CHOOSE i \in succeeded : \A j \in succeeded : i <= j
    IN  IF succeeded # {}
        THEN [text |-> attempts[first].text, calls |-> first]
        ELSE [text |-> TechnicalIssueText, calls |-> 3]

\* Faulty variant, for comparison: the turn number is taken as 0-indexed.
sequential_speaker_selection_zero_indexed(turn_number) == speakers[(turn_number % 3) + 1]

sequential_speaker_selection(turn_number) == speakers[((turn_number - 1) % 3) + 1]

\* The if / elif chain that attributes a history entry to a role.
CountedAs(entry) ==
    IF Contains(entry, "Therapist:") THEN "Therapist"
    ELSE IF Contains(entry, "Patient A") THEN "Patient A"
    ELSE IF Contains(entry, "Patient B") THEN "Patient B"
    ELSE IF Contains(entry, "AI_Facilitator:") THEN "AI_Facilitator"
    ELSE "nobody"

speaker_counts(recent_history) ==
    [s \in {"Therapist", "Patient A", "Patient B", "AI_Facilitator"} |->
        Cardinality({i \in DOMAIN recent_history : CountedAs(recent_history[i]) = s})]

\* Faulty variant, for comparison: the speaker who just spoke is not removed from the candidates.
intelligent_speaker_selection_keeps_speaker(history, speaker, occurred) ==
    LET recent_history == LastN(history, 6)
        counts == speaker_counts(recent_history)
        possible_speakers == {"Therapist", "Patient A", "Patient B"}
        patients == possible_speakers \cap Patients
    IN  IF occurred /\ patients # {}
        THEN {IF counts["Patient A"] <= counts["Patient B"] THEN "Patient A" ELSE "Patient B"}
        ELSE IF counts["Therapist"] < 2 /\ Len(recent_history) > 4
                /\ "Therapist" \in possible_speakers
        THEN {"Therapist"}
        ELSE IF patients # {}
        THEN IF counts["Patient A"] <= counts["Patient B"]
             THEN {IF "Patient A" \in patients THEN "Patient A" ELSE "Patient B"}
             ELSE {IF "Patient B" \in patients THEN "Patient B" ELSE "Patient A"}
        ELSE possible_speakers

\* Faulty variant, for comparison: the patients are not balanced, the choice
\* among the others is left to random.choice.
intelligent_speaker_selection_unbalanced(history, speaker, occurred) ==
    LET recent_history == LastN(history, 6)
        counts == speaker_counts(recent_history)
        possible_speakers == {s \in {"Therapist", "Patient A", "Patient B"} : s # speaker}
        patients == possible_speakers \cap Patients
    IN  IF occurred /\ patients # {}
        THEN {IF counts["Patient A"] <= counts["Patient B"] THEN "Patient A" ELSE "Patient B"}
        ELSE IF counts["Therapist"] < 2 /\ Len(recent_history) > 4
                /\ "Therapist" \in possible_speakers
        THEN {"Therapist"}
        ELSE possible_speakers

\* The set of speakers the call may return (more than one only where it ends
\* in random.choice).
intelligent_speaker_selection(history, speaker, occurred) ==
    LET recent_history == LastN(history, 6)
        counts == speaker_counts(recent_history)
        possible_speakers == {s \in {"Therapist", "Patient A", "Patient B"} : s # speaker}
        patients == possible_speakers \cap Patients
    IN  IF occurred /\ patients # {}
        THEN {IF counts["Patient A"] <= counts["Patient B"] THEN "Patient A" ELSE "Patient B"}
        ELSE IF counts["Therapist"] < 2 /\ Len(recent_history) > 4
                /\ "Therapist" \in possible_speakers
        THEN {"Therapist"}
        ELSE IF patients # {}
        THEN IF counts["Patient A"] <= counts["Patient B"]
             THEN {IF "Patient A" \in patients THEN "Patient A" ELSE "Patient B"}
             ELSE {IF "Patient B" \in patients THEN "Patient B" ELSE "Patient A"}
        ELSE possible_speakers

(***************************************************************************)
(* intervention_system.py                                                  *)
(***************************************************************************)
\* An "average": a number num/den, a missing key, or a value that is no number.
Num(n, d) == [tag |-> "num", num |-> n, den |-> d]
MissingAverage == [tag |-> "missing", num |-> 0, den |-> 1]
TextAverage == [tag |-> "str", num |-> 0, den |-> 1]

\* A JSON object with (or without) the keys the program reads, and a JSON
\* value that is no object (a list, a number, null).
ScoreDict(average, recommendation) ==
    [type |-> "dict", average |-> average, recommendation |-> recommendation]
NotADict == [type |-> "list"]

DefaultScore(reasoning) ==
    [type |-> "dict", flow_disruption |-> 50, therapeutic_need |-> 50, timing |-> 50,
     impact |-> 50, average |-> Num(50, 1), recommendation |-> "CONTINUE",
     reasoning |-> reasoning]

\* What the scoring collaborator may do: raise; answer a text that is JSON
\* (value); a text that is not JSON but holds a {...} span that is (value);
\* a text whose {...} span is not JSON; a text with no {...} span.
ScoringRaise == [kind |-> "raise"]
ScoringJson(value) == [kind |-> "json", value |-> value]
ScoringEmbedded(value) == [kind |-> "embedded", value |-> value]
ScoringEmbeddedInvalid == [kind |-> "embedded_invalid"]
ScoringGarbage == [kind |-> "garbage"]

calculate_intervention_score(response) ==
    CASE response.kind = "raise" -> DefaultScore("Error")
      [] response.kind = "json" -> response.value
      [] response.kind = "embedded" -> response.value
      [] response.kind = "embedded_invalid" -> DefaultScore("Error")
      [] response.kind = "garbage" -> DefaultScore("Unable to parse scoring response")

\* intervention_score.get('average', 0)
GetAverage(score) ==
    IF score.average.tag = "missing" THEN Num(0, 1) ELSE score.average

\* Faulty variant, for comparison: the boundary is exclusive.
should_intervene_strict(score) ==
    LET average == GetAverage(score)
    IN  average.num > INTERVENTION_THRESHOLD * average.den

\* Faulty variant, for comparison: the collaborator's recommendation decides.
should_intervene_by_recommendation(score) == score.recommendation = "INTERVENE"

should_intervene(score) ==
    LET average == GetAverage(score)
    IN  average.num >= INTERVENTION_THRESHOLD * average.den

\* main.py:182-183 formats score.get('average', 0) with :.1f : it raises for a
\* value without .get and for an average that is no number.
ScoreReportRaises(score) ==
    \/ score.type # "dict"
    \/ score.average.tag = "str"

\* What generate_intervention returns: None or a text.  NotGenerated: the
\* iteration did not call it.
NotGenerated == [kind |-> "unset"]
NoIntervention == [kind |-> "None"]
InterventionText(text) == [kind |-> "str", text |-> text]

\* The guidance template put in the prompt (intervention_system.py:139-165):
\* chosen by the "type" field of the first trigger.
guidance_template(triggers) ==
    LET primary_trigger == triggers[1]
        trigger_type == primary_trigger.type
    IN  IF trigger_type = "Direct Intervention Request" THEN "help request"
        ELSE IF trigger_type = "Emotional Escalation" THEN "de-escalate"
        ELSE IF trigger_type = "Extended Silence" THEN "check in"
        ELSE IF trigger_type = "Message Dominance" THEN "balance"
        ELSE IF trigger_type = "Information Overload" THEN "simplify"
        ELSE "generic"

generate_intervention(triggers, attempt) ==
    IF triggers = <<>> THEN NoIntervention
    ELSE IF attempt.ok THEN InterventionText(attempt.text)
    ELSE NoIntervention

\* Faulty variant, for comparison: `if intervention is not None:`.
Truthy_not_none(value) == value.kind = "str"

\* `if intervention:` : None and the empty string are false.
Truthy(value) == value.kind = "str" /\ value.text.len > 0

(***************************************************************************)
(* panas_analyzer.py                                                       *)
(***************************************************************************)
PANAS_POSITIVE ==
    <<"Interested", "Excited", "Strong", "Enthusiastic", "Proud",
      "Alert", "Inspired", "Determined", "Attentive", "Active">>
PANAS_NEGATIVE ==
    <<"Distressed", "Upset", "Guilty", "Scared", "Hostile",
      "Irritable", "Ashamed", "Nervous", "Jittery", "Afraid">>
\* The keys of emotion_map, in the order of the dict.
emotion_map ==
    <<"interested", "excited", "strong", "enthusiastic", "proud",
      "alert", "inspired", "determined", "attentive", "active",
      "distressed", "upset", "guilty", "scared", "hostile",
      "irritable", "ashamed", "nervous", "jittery", "afraid">>
Range(f) == {f[i] : i \in DOMAIN f}

\* str.lower() and str.title() on the names of the vocabulary; lower() also
\* on the other names a baseline may hold (a name without capitals is its
\* own lower case).
Lower(word) ==
    LET all == PANAS_POSITIVE \o PANAS_NEGATIVE
    IN  IF word \in Range(all) THEN emotion_map[CHOOSE i \in DOMAIN all : all[i] = word]
        ELSE CASE word = "INTERESTED" -> "interested"
               [] word = "Scared " -> "scared "
               [] OTHER -> word
Title(key) ==
    LET all == PANAS_POSITIVE \o PANAS_NEGATIVE
    IN  all[CHOOSE i \in DOMAIN emotion_map : emotion_map[i] = key]

\* A name as it stands in a text or a file: text, the string itself;
\* cleaned, what strip(), lower() and the three re.sub leave of it; holds,
\* the keys of emotion_map that occur in cleaned, in the order of the dict.
Name(text, cleaned, holds) == [text |-> text, cleaned |-> cleaned, holds |-> holds]
VocabularyName(word) == Name(word, Lower(word), <<Lower(word)>>)

\* Faulty variant, for comparison: the name is looked up as it is written.
normalize_emotion_name_keeps_case(name) == name.text

normalize_emotion_name(name) ==
    IF name.text = "" THEN ""
    ELSE IF name.cleaned \in Range(emotion_map) THEN name.cleaned
    ELSE IF name.holds # <<>> THEN name.holds[1]
    ELSE name.cleaned

\* A token s of the score field: isdigit, s.isdigit(); literal, int(s)
\* returns (it raises ValueError on a token such as the superscript two,
\* which str.isdigit accepts); int, the value of int(s) when it returns.
Digits(n) == [isdigit |-> TRUE, literal |-> TRUE, int |-> n]
Word == [isdigit |-> FALSE, literal |-> FALSE, int |-> 0]
Superscript == [isdigit |-> TRUE, literal |-> FALSE, int |-> 0]

\* panas_analyzer.py:176-181; score_str is the sequence score_str.split().
\* The comprehension converts every token that isdigit accepts, so one
\* ValueError anywhere in the field ends in the except clause.
score_of(score_str) ==
    LET InRange(tok) == tok.isdigit /\ 1 <= tok.int /\ tok.int <= 5
        score_matches == SelectSeq(score_str, InRange)
        raises == \E i \in DOMAIN score_str :
                     score_str[i].isdigit /\ ~score_str[i].literal
    IN  IF raises THEN 3
        ELSE IF score_matches # <<>> THEN score_matches[1].int ELSE 3

\* A line of the text: skipped, it is empty, shorter than 5 characters or
\* holds one of the skip words; parts, the number of comma-separated parts;
\* emotion_raw, explanation: parts[0], parts[1]; score_str: the tokens of
\* parts[2], or of the last part when there are 2 parts.
Line(skipped, parts, emotion_raw, explanation, score_str) ==
    [skipped |-> skipped, parts |-> parts, emotion_raw |-> emotion_raw,
     explanation |-> explanation, score_str |-> score_str]

RECURSIVE parse_panas_output(_)
parse_panas_output(panas_text) ==
    IF panas_text = <<>> THEN <<>>
    ELSE LET emotions == parse_panas_output(SubSeq(panas_text, 1, Len(panas_text) - 1))
             line == panas_text[Len(panas_text)]
             processed_emotions == {Lower(emotions[i].feeling.text) : i \in DOMAIN emotions}
             valid_emotions ==
                 {Lower(w) : w \in Range(PANAS_POSITIVE \o PANAS_NEGATIVE)}
             emotion_normalized == normalize_emotion_name(line.emotion_raw)
         IN  IF line.skipped \/ line.parts < 2 THEN emotions
             ELSE IF emotion_normalized \notin valid_emotions
                     \/ emotion_normalized \in processed_emotions
             THEN emotions
             ELSE Append(emotions,
                         [feeling |-> VocabularyName(Title(emotion_normalized)),
                          explanation |-> line.explanation,
                          score |-> score_of(line.score_str)])

\* after_dict: the last entry of after_emotions with the normalized name.
after_dict(after_emotions, normalized) ==
    LET hits == {i \in DOMAIN after_emotions :
                    normalize_emotion_name(after_emotions[i].feeling) = normalized}
    IN  after_emotions[CHOOSE i \in hits : \A j \in hits : j <= i]

\* Faulty variant, for comparison: a baseline entry without counterpart
\* gets a delta against the default score 3.
RECURSIVE compute_panas_delta_fills_missing(_, _)
compute_panas_delta_fills_missing(before_emotions, after_emotions) ==
    IF before_emotions = <<>> \/ after_emotions = <<>> THEN <<>>
    ELSE LET n == Len(before_emotions)
             before_emotion == before_emotions[n]
             before_normalized == normalize_emotion_name(before_emotion.feeling)
             matched ==
                 \E i \in DOMAIN after_emotions :
                    normalize_emotion_name(after_emotions[i].feeling) = before_normalized
             after_score ==
                 IF matched THEN after_dict(after_emotions, before_normalized).score ELSE 3
             delta ==
                 IF n = 1 THEN <<>>
                 ELSE compute_panas_delta_fills_missing(SubSeq(before_emotions, 1, n - 1),
                                                        after_emotions)
         IN  Append(delta,
                    [feeling |-> before_emotion.feeling.text,
                     before_score |-> before_emotion.score,
                     after_score |-> after_score,
                     difference |-> after_score - before_emotion.score])

\* Faulty variant, for comparison: the deltas are emitted in the reverse of
\* the baseline order.
RECURSIVE compute_panas_delta_reversed(_, _)
compute_panas_delta_reversed(before_emotions, after_emotions) ==
    IF before_emotions = <<>> \/ after_emotions = <<>> THEN <<>>
    ELSE LET before_emotion == before_emotions[1]
             before_normalized == normalize_emotion_name(before_emotion.feeling)
             matched ==
                 \E i \in DOMAIN after_emotions :
                    normalize_emotion_name(after_emotions[i].feeling) = before_normalized
             delta ==
                 IF Len(before_emotions) = 1 THEN <<>>
                 ELSE compute_panas_delta_reversed(Tail(before_emotions), after_emotions)
         IN  IF matched
             THEN LET after_emotion == after_dict(after_emotions, before_normalized)
                  IN  Append(delta,
                             [feeling |-> before_emotion.feeling.text,
                              before_score |-> before_emotion.score,
                              after_score |-> after_emotion.score,
                              difference |-> after_emotion.score - before_emotion.score])
             ELSE delta

\* The scores are integers, on which int() is the identity.
RECURSIVE compute_panas_delta(_, _)
compute_panas_delta(before_emotions, after_emotions) ==
    IF before_emotions = <<>> \/ after_emotions = <<>> THEN <<>>
    ELSE LET n == Len(before_emotions)
             before_emotion == before_emotions[n]
             before_normalized == normalize_emotion_name(before_emotion.feeling)
             matched ==
                 \E i \in DOMAIN after_emotions :
                    normalize_emotion_name(after_emotions[i].feeling) = before_normalized
             delta ==
                 IF n = 1 THEN <<>>
                 ELSE compute_panas_delta(SubSeq(before_emotions, 1, n - 1), after_emotions)
         IN  IF matched
             THEN LET after_emotion == after_dict(after_emotions, before_normalized)
                  IN  Append(delta,
                             [feeling |-> before_emotion.feeling.text,
                              before_score |-> before_emotion.score,
                              after_score |-> after_emotion.score,
                              difference |-> after_emotion.score - before_emotion.score])
             ELSE delta

RECURSIVE SumOfDifferences(_)
SumOfDifferences(changes) ==
    IF changes = <<>> THEN 0
    ELSE changes[1].difference + SumOfDifferences(Tail(changes))

\* Faulty variant, for comparison: a rise of a negative emotion counts as
\* an improvement.
improved_negative_on_rise(d) == d.difference > 0

\* panas_analyzer.py:277-278: the tests of the two counts.
improved_positive(d) == d.difference > 0
improved_negative(d) == d.difference < 0

\* The differences are integers, so the isinstance filters keep them all.
summarize_panas_changes(panas_delta, positive_emotions_lower, negative_emotions_lower) ==
    LET IsPositive(d) == Lower(d.feeling) \in positive_emotions_lower
        IsNegative(d) == Lower(d.feeling) \in negative_emotions_lower
        positive_changes == SelectSeq(panas_delta, IsPositive)
        negative_changes == SelectSeq(panas_delta, IsNegative)
        pos_total == SumOfDifferences(positive_changes)
        neg_total == SumOfDifferences(negative_changes)
    IN  [positive_emotion_change |-> pos_total,
         negative_emotion_change |-> neg_total,
         num_improved_positive |-> Len(SelectSeq(positive_changes, improved_positive)),
         num_improved_negative |-> Len(SelectSeq(negative_changes, improved_negative)),
         net_change |-> pos_total + neg_total]

(***************************************************************************)
(* session_setup.py                                                        *)
(***************************************************************************)
\* A persona of the personas file: its name (the key) and its trigger type.
\* NoName is None; UnknownName is a name that is no key of the file.
PersonaName(t, k) == [of |-> t, k |-> k]
Persona(t, k) == [name |-> PersonaName(t, k), trigger_type |-> t]
NoName == [of |-> "None", k |-> 0]
UnknownName == [of |-> "unknown", k |-> 0]

\* Faulty variant, for comparison: the trigger type is not looked at.
filter_personas_by_trigger_keeps_all(personas, selected) == personas

filter_personas_by_trigger(personas, selected) ==
    IF selected = "All Triggers" THEN personas
    ELSE {p \in personas : p.trigger_type = selected}

\* What setup_session_parameters does: it raises ValueError, or it returns
\* the participants.
SetupRaises == [raised |-> TRUE]
Participants(a, b) == [raised |-> FALSE, patient_A |-> a, patient_B |-> b]
NoParticipants == [raised |-> FALSE, patient_A |-> NoName, patient_B |-> NoName]

\* Faulty variant, for comparison: the requested names are taken as they are.
setup_session_parameters_trusts_names(personas, selected, structure, patient_a_name, patient_b_name) ==
    LET available_personas ==
            IF structure = "LLM with Triggers"
            THEN filter_personas_by_trigger(personas, selected)
            ELSE personas
        keys == {p.name : p \in available_personas}
        FirstA == IF patient_a_name = NoName THEN keys ELSE {patient_a_name}
        FirstB(a) == IF patient_b_name = NoName THEN keys \ {a} ELSE {patient_b_name}
    IN  IF Cardinality(keys) < 2 THEN {SetupRaises}
        ELSE UNION {{Participants(a1, b1) : b1 \in FirstB(a1)} : a1 \in FirstA}

\* The set of outcomes of the call (more than one where random.choice draws).
setup_session_parameters(personas, selected, structure, patient_a_name, patient_b_name) ==
    LET available_personas ==
            IF structure = "LLM with Triggers"
            THEN filter_personas_by_trigger(personas, selected)
            ELSE personas
        keys == {p.name : p \in available_personas}
        FirstA == IF patient_a_name = NoName THEN keys ELSE {patient_a_name}
        FirstB(a) == IF patient_b_name = NoName THEN keys \ {a} ELSE {patient_b_name}
        ValidA(a) == IF a \notin keys THEN keys ELSE {a}
        ValidB(a, b) ==
            IF b \notin keys \/ a = b
            THEN IF keys \ {a} = {} THEN {SetupRaises}
                 ELSE {Participants(a, bb) : bb \in keys \ {a}}
            ELSE {Participants(a, b)}
    IN  IF Cardinality(keys) < 2 THEN {SetupRaises}
        ELSE UNION {UNION {UNION {ValidB(a2, b1) : a2 \in ValidA(a1)} :
                              b1 \in FirstB(a1)} :
                       a1 \in FirstA}

\* The personas files considered: two personas per trigger type; two for one
\* type and one for another; a single persona; none.
DefaultPersonas ==
    {Persona(t, k) : t \in TRIGGER_TYPES \ {"All Triggers"}, k \in 1..2}
PersonaPools ==
    {DefaultPersonas,
     {Persona("Direct Intervention Request", 1), Persona("Direct Intervention Request", 2),
      Persona("Semantic Analysis", 1)},
     {Persona("Direct Intervention Request", 1)},
     {}}
\* The participants of the sessions followed from the start of the loop.
DefaultParticipants(selected) ==
    LET t == IF selected \in TRIGGER_TYPES \ {"All Triggers"} THEN selected
             ELSE "Direct Intervention Request"
    IN  Participants(PersonaName(t, 1), PersonaName(t, 2))

(***************************************************************************)
(* What the collaborators may do in a session.                             *)
(***************************************************************************)
SpecialTexts(transcript) ==
    Cardinality({i \in DOMAIN transcript : transcript[i].dialogue # PlainReply})

DialogueAttempts(transcript) ==
    IF SpecialTexts(transcript) < MaxSpecialTexts
    THEN {<<ApiOk(t)>> : t \in ReplyTexts} \cup {<<ApiRaise(e)>> : e \in ErrorTexts}
    ELSE {<<ApiOk(PlainReply)>>}

InterventionAttempts(transcript) ==
    IF SpecialTexts(transcript) < MaxSpecialTexts
    THEN {ApiOk(t) : t \in FacilitatorTexts} \cup {ApiRaise(ErrorPlain)}
    ELSE {ApiOk(PlainReply), ApiOk(EmptyText), ApiRaise(ErrorPlain)}

JsonDicts ==
    {ScoreDict(Num(279, 4), "INTERVENE"), ScoreDict(Num(70, 1), "CONTINUE"),
     ScoreDict(MissingAverage, "INTERVENE"), ScoreDict(TextAverage, "INTERVENE")}
ScoringResponses ==
    {ScoringRaise, ScoringGarbage, ScoringEmbeddedInvalid, ScoringJson(NotADict)}
    \cup {ScoringJson(v) : v \in JsonDicts}
    \cup {ScoringEmbedded(ScoreDict(Num(70, 1), "CONTINUE"))}

NoScore == [type |-> "unset"]
NoCall == [op |-> "none"]
NoResult == [op |-> "none"]

(***************************************************************************)
(* run_session_loop (main.py:34-268)                                       *)
(***************************************************************************)
Init ==
    /\ conversation_structure \in CONVERSATION_STRUCTURES
    /\ selected_trigger \in
          IF conversation_structure = "LLM with Triggers" THEN TRIGGER_TYPES
          ELSE {"No Trigger"}
    /\ first_speaker \in FIRST_SPEAKER_OPTIONS
    /\ all_personas = DefaultPersonas
    /\ participants = DefaultParticipants(selected_trigger)
    /\ max_turns = MaxTurns
    /\ session_transcript = <<>>
    /\ trigger_log = <<>>
    /\ intervention_scores = <<>>
    /\ intervention_count = 0
    /\ scored_interventions_rejected = 0
    /\ conversation_history = <<>>
    /\ current_turn_number = 1
    /\ current_speaker = "Therapist"
    /\ dialogue = EmptyText
    /\ triggers_detected = <<>>
    /\ intervention_score = NoScore
    /\ intervention = NotGenerated
    /\ intervention_occurred = FALSE
    /\ pc = "loop"
    /\ call = NoCall
    /\ result = NoResult

\* Faulty variant, for comparison: the override is tested on every early turn.
first_speaker_override_early_turns(turn, first) ==
    IF turn <= 2 /\ first # "Random" THEN first ELSE "None"

\* Step 6 (main.py:239-243): the value of next_speaker_override.
first_speaker_override(turn, first) ==
    IF turn = 1 /\ first # "Random" THEN first ELSE "None"

\* Faulty variant, for comparison: the index the Facilitator turn used is
\* not counted when the turn number is advanced.
SelectNextSpeaker_reuses_index(transcript, history, turn, occurred) ==
    LET next_speaker_override == first_speaker_override(turn, first_speaker)
        choices ==
            IF next_speaker_override # "None" THEN {next_speaker_override}
            ELSE IF conversation_structure = "Sequential"
                 THEN {sequential_speaker_selection(turn + 1)}
                 ELSE intelligent_speaker_selection(history, current_speaker, occurred)
    IN  /\ session_transcript' = transcript
        /\ conversation_history' = history
        /\ intervention_occurred' = occurred
        /\ \E next_speaker \in choices : current_speaker' = next_speaker
        /\ current_turn_number' = current_turn_number + 1
        /\ pc' = "loop"

\* Steps 6 and 7 and the end of the iteration (main.py:239-261); turn is
\* current_turn_number as the steps before left it.
SelectNextSpeaker(transcript, history, turn, occurred) ==
    LET next_speaker_override == first_speaker_override(turn, first_speaker)
        choices ==
            IF next_speaker_override # "None" THEN {next_speaker_override}
            ELSE IF conversation_structure = "Sequential"
                 THEN {sequential_speaker_selection(turn + 1)}
                 ELSE intelligent_speaker_selection(history, current_speaker, occurred)
    IN  /\ session_transcript' = transcript
        /\ conversation_history' = history
        /\ intervention_occurred' = occurred
        /\ \E next_speaker \in choices : current_speaker' = next_speaker
        /\ current_turn_number' = turn + 1
        /\ pc' = "loop"

\* Faulty variant, for comparison: the history is cut to its last 3 entries.
NoScoring_truncates_history(transcript, history) ==
    /\ triggers_detected' = <<>>
    /\ intervention_score' = NoScore
    /\ intervention' = NotGenerated
    /\ UNCHANGED <<trigger_log, intervention_scores, intervention_count,
                   scored_interventions_rejected>>
    /\ SelectNextSpeaker(transcript, LastN(history, 3), current_turn_number, FALSE)

\* No trigger evaluated or none detected (main.py:153, 161).
NoScoring(transcript, history) ==
    /\ triggers_detected' = <<>>
    /\ intervention_score' = NoScore
    /\ intervention' = NotGenerated
    /\ UNCHANGED <<trigger_log, intervention_scores, intervention_count,
                   scored_interventions_rejected>>
    /\ SelectNextSpeaker(transcript, history, current_turn_number, FALSE)

\* Steps 3 and 4 (main.py:168-233).
ScoringCycle(transcript, history, message, triggers) ==
    \E response \in ScoringResponses :
        LET score == calculate_intervention_score(response) IN
        /\ triggers_detected' = triggers
        /\ intervention_score' = score
        /\ intervention_scores' =
              Append(intervention_scores,
                     [turn |-> current_turn_number, triggers |-> triggers, score |-> score])
        /\ IF ScoreReportRaises(score)
           THEN /\ pc' = "crashed"
                /\ session_transcript' = transcript
                /\ conversation_history' = history
                /\ intervention' = NotGenerated
                /\ intervention_occurred' = FALSE
                /\ UNCHANGED <<trigger_log, intervention_count,
                               scored_interventions_rejected, current_turn_number,
                               current_speaker>>
           ELSE IF should_intervene(score)
           THEN \E attempt \in InterventionAttempts(transcript) :
                    LET text == generate_intervention(triggers, attempt) IN
                    /\ intervention' = text
                    /\ UNCHANGED scored_interventions_rejected
                    /\ IF Truthy(text)
                       THEN /\ trigger_log' =
                                  Append(trigger_log,
                                         [turn |-> current_turn_number, triggers |-> triggers,
                                          intervention |-> text.text, score |-> score])
                            /\ intervention_count' = intervention_count + 1
                            /\ SelectNextSpeaker(
                                  Append(transcript,
                                         [turn |-> current_turn_number + 1,
                                          speaker |-> "AI_Facilitator",
                                          dialogue |-> text.text,
                                          intervention_for_triggers |-> triggers,
                                          intervention_score |-> score,
                                          intervention_type |-> "llm_scored"]),
                                  Append(history, full_log_entry("AI Facilitator", text.text)),
                                  current_turn_number + 1, TRUE)
                       ELSE /\ UNCHANGED <<trigger_log, intervention_count>>
                            /\ SelectNextSpeaker(transcript, history, current_turn_number, FALSE)
           ELSE /\ intervention' = NotGenerated
                /\ scored_interventions_rejected' = scored_interventions_rejected + 1
                /\ UNCHANGED <<trigger_log, intervention_count>>
                /\ SelectNextSpeaker(transcript, history, current_turn_number, FALSE)

\* Faulty variant, for comparison: the Therapist's turns are examined too.
TriggerDetectionApplies_any_speaker(structure, speaker) ==
    structure = "LLM with Triggers"

\* The guard of step 2 (main.py:153).
TriggerDetectionApplies(structure, speaker) ==
    structure = "LLM with Triggers" /\ speaker # "Therapist"

\* One iteration of the while loop (main.py:69-263).
RunTurn ==
    /\ pc = "loop"
    /\ current_turn_number <= max_turns
    /\ \E attempts \in DialogueAttempts(session_transcript) :
          LET message == generate_agent_turn(attempts).text
              transcript ==
                  Append(session_transcript,
                         [turn |-> current_turn_number, speaker |-> current_speaker,
                          dialogue |-> message])
              history ==
                  Append(conversation_history, full_log_entry(current_speaker, message))
          IN  /\ dialogue' = message
              /\ IF TriggerDetectionApplies(conversation_structure, current_speaker)
                 THEN \E silence_duration \in
                            SilenceDraws(history, current_speaker, selected_trigger) :
                         LET triggers ==
                                 detect_triggers(history, current_speaker, message,
                                                 selected_trigger, silence_duration)
                         IN  IF triggers # <<>>
                             THEN ScoringCycle(transcript, history, message, triggers)
                             ELSE NoScoring(transcript, history)
                 ELSE NoScoring(transcript, history)
    /\ UNCHANGED <<configVars, callVars>>

\* The loop condition fails and the function returns (main.py:69, 266-268).
ExitLoop ==
    /\ pc = "loop"
    /\ current_turn_number > max_turns
    /\ pc' = "done"
    /\ UNCHANGED <<configVars, session_transcript, trigger_log, intervention_scores,
                   intervention_count, scored_interventions_rejected,
                   conversation_history, current_turn_number, current_speaker,
                   dialogue, triggers_detected, intervention_score, intervention,
                   intervention_occurred, callVars>>

Next ==
    \/ RunTurn
    \/ ExitLoop

Spec == Init /\ [][Next]_vars

\* The loop body has no blocking step other than the collaborators' calls,
\* which return or raise: an iteration that can be taken is taken.
LiveSpec == Spec /\ WF_vars(Next)

(***************************************************************************)
(* main (main.py:337-442): the session from the configuration stage on.    *)
(***************************************************************************)
MainInit ==
    /\ conversation_structure \in CONVERSATION_STRUCTURES
    /\ selected_trigger \in
          IF conversation_structure = "LLM with Triggers" THEN TRIGGER_TYPES
          ELSE {"No Trigger"}
    /\ first_speaker \in FIRST_SPEAKER_OPTIONS
    /\ all_personas \in PersonaPools
    /\ participants = NoParticipants
    /\ max_turns = MaxTurnsAfterSetup
    /\ session_transcript = <<>>
    /\ trigger_log = <<>>
    /\ intervention_scores = <<>>
    /\ intervention_count = 0
    /\ scored_interventions_rejected = 0
    /\ conversation_history = <<>>
    /\ current_turn_number = 1
    /\ current_speaker = "Therapist"
    /\ dialogue = EmptyText
    /\ triggers_detected = <<>>
    /\ intervention_score = NoScore
    /\ intervention = NotGenerated
    /\ intervention_occurred = FALSE
    /\ pc = "setup"
    /\ call = NoCall
    /\ result = NoResult

\* The names the persona menu may hand over: a key of the file, None, or a
\* name that is no key.
RequestedNames == {p.name : p \in all_personas} \cup {NoName, UnknownName}

\* Stage 3 (main.py:409-423): setup_session_parameters returns and the loop
\* is entered with the empty session state, or it raises and main ends.
SetupSession ==
    /\ pc = "setup"
    /\ \E patient_a_name \in RequestedNames, patient_b_name \in RequestedNames :
          \E outcome \in setup_session_parameters(all_personas, selected_trigger,
                                                 conversation_structure,
                                                 patient_a_name, patient_b_name) :
             IF outcome.raised
             THEN pc' = "setup_failed" /\ UNCHANGED participants
             ELSE pc' = "loop" /\ participants' = outcome
    /\ UNCHANGED <<all_personas, conversation_structure, selected_trigger, first_speaker,
                   max_turns, session_transcript, trigger_log, intervention_scores,
                   intervention_count, scored_interventions_rejected,
                   conversation_history, current_turn_number, current_speaker, dialogue,
                   triggers_detected, intervention_score, intervention,
                   intervention_occurred, callVars>>

MainNext ==
    \/ SetupSession
    \/ RunTurn
    \/ ExitLoop

MainSpec == MainInit /\ [][MainNext]_vars

(***************************************************************************)
(* Properties of a session.                                                *)
(***************************************************************************)
\* A step that is an iteration of the loop: it appends the turn generated.
TurnTaken == Len(session_transcript') > Len(session_transcript)

\* The iteration that led to this state computed a score.
CycleScored == triggers_detected # <<>> /\ intervention_score # NoScore

\* The score holds a number as its average, and the number is >= / < the threshold.
AverageReachesThreshold(score) ==
    /\ score.type = "dict"
    /\ score.average.tag = "num"
    /\ score.average.num >= INTERVENTION_THRESHOLD * score.average.den
AverageBelowThreshold(score) ==
    /\ score.type = "dict"
    /\ \/ score.average.tag = "missing"
       \/ /\ score.average.tag = "num"
          /\ score.average.num < INTERVENTION_THRESHOLD * score.average.den

\* generate_intervention was called and returned no text (None or the empty
\* string) / a text.
NoTextReturned(value) == value.kind = "None" \/ (value.kind = "str" /\ value.text.len = 0)
TextReturned(value) == value.kind = "str" /\ value.text.len > 0

\* The step appended the generated turn and, directly after it, exactly one
\* Facilitator turn.
OneFacilitatorTurnAppended ==
    LET n == Len(session_transcript) IN
    /\ Len(session_transcript') = n + 2
    /\ SubSeq(session_transcript', 1, n) = session_transcript
    /\ session_transcript'[n + 1].speaker = current_speaker
    /\ session_transcript'[n + 2].speaker = "AI_Facilitator"
\* The step appended the generated turn and nothing else.
NoFacilitatorTurnAppended ==
    LET n == Len(session_transcript) IN
    /\ Len(session_transcript') = n + 1
    /\ SubSeq(session_transcript', 1, n) = session_transcript
    /\ session_transcript'[n + 1].speaker = current_speaker

\* C1: no two ordinary (non-Facilitator) turns that are adjacent in the
\* transcript have the same speaker, in every structure and for every
\* first-speaker setting.
C1_NoAdjacentRepeat ==
    \A i \in 1..(Len(session_transcript) - 1) :
        (/\ session_transcript[i].speaker # "AI_Facilitator"
         /\ session_transcript[i + 1].speaker # "AI_Facilitator")
        => session_transcript[i].speaker # session_transcript[i + 1].speaker

\* How many of the last 6 history entries, when the history had i entries,
\* are turns of participant p.
TurnsAmongLastSix(p, i) ==
    Cardinality({j \in 1..i : j > i - 6 /\ session_transcript[j].speaker = p})

\* C2: the turn that follows a Facilitator turn is spoken by Patient A or
\* Patient B, and by the one with the lower count among the last 6 history
\* entries (Patient A on a tie).
C2_AfterFacilitator ==
    \A i \in 1..(Len(session_transcript) - 1) :
        session_transcript[i].speaker = "AI_Facilitator"
        => session_transcript[i + 1].speaker =
              IF TurnsAmongLastSix("Patient A", i) <= TurnsAmongLastSix("Patient B", i)
              THEN "Patient A" ELSE "Patient B"

\* What the code does keep of C2: the turn after a Facilitator turn is
\* spoken by a participant.
C2_ParticipantAfterFacilitator ==
    \A i \in 1..(Len(session_transcript) - 1) :
        session_transcript[i].speaker = "AI_Facilitator"
        => session_transcript[i + 1].speaker \in Patients

\* C3 as stated: in every scoring cycle whose average is >= the threshold,
\* exactly one Facilitator turn is appended, directly after the scored turn.
C3_FacilitatorWheneverThresholdMet ==
    [][(TurnTaken /\ CycleScored' /\ AverageReachesThreshold(intervention_score'))
       => OneFacilitatorTurnAppended]_vars

\* C3 amended: in every scoring cycle whose average is >= the threshold,
\* exactly one Facilitator turn is appended directly after the scored turn
\* if generate_intervention returned a text, and none if it returned no text.
C3_FacilitatorWhenTextGenerated ==
    [][(TurnTaken /\ CycleScored' /\ AverageReachesThreshold(intervention_score'))
       => \/ TextReturned(intervention') /\ OneFacilitatorTurnAppended
          \/ NoTextReturned(intervention') /\ NoFacilitatorTurnAppended]_vars

C3_Witness ==
    /\ CycleScored
    /\ AverageReachesThreshold(intervention_score)
    /\ TextReturned(intervention)
    /\ session_transcript[Len(session_transcript)].speaker = "AI_Facilitator"
    /\ session_transcript[Len(session_transcript)].turn = intervention_scores[1].turn + 1

\* C4: in every scoring cycle whose average is below the threshold, no
\* Facilitator turn is appended, intervention_count is unchanged and
\* scored_interventions_rejected increases by exactly one.
C4_BelowThresholdRejected ==
    [][(TurnTaken /\ CycleScored' /\ AverageBelowThreshold(intervention_score'))
       => /\ NoFacilitatorTurnAppended
          /\ intervention_count' = intervention_count
          /\ scored_interventions_rejected' = scored_interventions_rejected + 1]_vars

C4_Witness ==
    /\ CycleScored
    /\ intervention_score.type = "dict"
    /\ intervention_score.average = Num(279, 4)
    /\ scored_interventions_rejected = 1
    /\ session_transcript[Len(session_transcript)].speaker \in Patients

\* C5: no outcome of the scoring collaborator crashes the session.
C5_ScoringNeverCrashes == pc # "crashed"

\* C7: when the decision is to intervene and generate_intervention returns
\* no text, no Facilitator turn is appended, no turn index is consumed,
\* intervention_count and trigger_log are unchanged, and the next speaker is
\* selected without the post-facilitator bias (so it is not the speaker of
\* the scored turn).
C7_FailedGenerationIsNoIntervention ==
    [][(/\ TurnTaken
        /\ CycleScored'
        /\ AverageReachesThreshold(intervention_score')
        /\ NoTextReturned(intervention'))
       => /\ NoFacilitatorTurnAppended
          /\ current_turn_number' = current_turn_number + 1
          /\ intervention_count' = intervention_count
          /\ trigger_log' = trigger_log
          /\ ~intervention_occurred'
          /\ current_speaker' # current_speaker
          /\ current_speaker' \in
                intelligent_speaker_selection(conversation_history', current_speaker, FALSE)]_vars

C7_Witness ==
    /\ CycleScored
    /\ AverageReachesThreshold(intervention_score)
    /\ intervention.kind = "str"
    /\ NoTextReturned(intervention)
    /\ pc = "loop"
    /\ intervention_count = 0

\* C8: an intervention attempt whose text generation fails is recorded by
\* the session as a rejected / failed attempt, apart from the below-threshold
\* rejections: some record the session writes after the decision changes.
C8_FailedGenerationRecorded ==
    [][(/\ TurnTaken
        /\ CycleScored'
        /\ AverageReachesThreshold(intervention_score')
        /\ NoTextReturned(intervention'))
       => \/ trigger_log' # trigger_log
          \/ intervention_count' # intervention_count
          \/ scored_interventions_rejected' # scored_interventions_rejected]_vars

\* C10: a turn whose dialogue is the generation-failure text is never
\* trigger-bearing: no trigger is detected for it, no score is computed for
\* it and no Facilitator turn is inserted because of it.
C10_FallbackNeverTriggers ==
    dialogue.fallback
    => /\ triggers_detected = <<>>
       /\ intervention_score = NoScore
       /\ ~intervention_occurred

\* C11 as stated: every scored cycle appends exactly one entry to
\* trigger_log, whatever its outcome (intervention produced, below-threshold
\* rejection, failed text generation).
C11_TriggerLogEveryScoredCycle ==
    [][(TurnTaken /\ CycleScored' /\ pc' = "loop")
       => Len(trigger_log') = Len(trigger_log) + 1]_vars

\* The speaker the rotation gives to the turn of index n.
RotationSpeaker(n) == speakers[((n - 1) % 3) + 1]

StructureSelection ==
    IF conversation_structure = "Sequential"
    THEN {sequential_speaker_selection(current_turn_number')}
    ELSE intelligent_speaker_selection(conversation_history', current_speaker,
                                       intervention_occurred')

\* C15: the first turn is the Therapist's; when first_speaker names a
\* participant the second turn is that participant's, in every structure;
\* the choice of every later turn's speaker is the structure's own.
C15_FirstSpeakerOverride ==
    [][(TurnTaken /\ pc' = "loop")
       => /\ Len(session_transcript) = 0
             => /\ session_transcript'[1].speaker = "Therapist"
                /\ session_transcript'[1].turn = 1
                /\ first_speaker \in Patients => current_speaker' = first_speaker
          /\ Len(session_transcript) = 1
             => /\ session_transcript'[2].turn = 2
                /\ first_speaker \in Patients
                   => session_transcript'[2].speaker = first_speaker
          /\ Len(session_transcript) >= 1
             => current_speaker' \in StructureSelection]_vars

C15_Witness ==
    /\ conversation_structure = "LLM Only"
    /\ first_speaker = "Patient B"
    /\ Len(session_transcript) >= 3
    /\ session_transcript[1].speaker = "Therapist"
    /\ session_transcript[2].speaker = "Patient B"
    /\ session_transcript[3].speaker = "Patient A"

\* C16: the turn indices of the transcript are strictly increasing in
\* transcript order (hence unique), Facilitator turns included.
C16_TurnIndicesIncrease ==
    \A i \in DOMAIN session_transcript : \A j \in DOMAIN session_transcript :
        i < j => session_transcript[i].turn < session_transcript[j].turn

C16_Witness ==
    /\ Len(session_transcript) >= 4
    /\ session_transcript[3].speaker = "AI_Facilitator"
    /\ session_transcript[3].turn = 3
    /\ session_transcript[4].turn = 4

\* C17: the transcript and the history are append-only: a step keeps every
\* existing entry as it is and in its place, and an iteration appends one
\* ordinary turn and then at most one Facilitator turn, to both.
C17_AppendOnly ==
    [][LET n == Len(session_transcript)
           m == Len(conversation_history)
       IN  /\ Len(session_transcript') >= n
           /\ SubSeq(session_transcript', 1, n) = session_transcript
           /\ Len(conversation_history') >= m
           /\ SubSeq(conversation_history', 1, m) = conversation_history
           /\ Len(conversation_history') - m = Len(session_transcript') - n
           /\ TurnTaken
              => /\ OneFacilitatorTurnAppended \/ NoFacilitatorTurnAppended
                 /\ conversation_history'[m + 1] =
                       full_log_entry(session_transcript'[n + 1].speaker,
                                      session_transcript'[n + 1].dialogue)]_vars

C17_Witness ==
    /\ Len(session_transcript) >= 5
    /\ Len(conversation_history) = Len(session_transcript)
    /\ \E i \in DOMAIN session_transcript :
          /\ session_transcript[i].speaker = "AI_Facilitator"
          /\ conversation_history[i].name = "AI Facilitator"

\* A Facilitator turn is in the transcript.
FacilitatorSpoke ==
    \E i \in DOMAIN session_transcript : session_transcript[i].speaker = "AI_Facilitator"

\* C18: only turns of Patient A or Patient B in an 'LLM with Triggers'
\* session are examined: a Therapist turn is never scored and never directly
\* followed by a Facilitator turn, and in the other structures there is no
\* Facilitator turn and intervention_scores, trigger_log and both counters
\* keep their initial values.
C18_OnlyParticipantTurnsWithTriggers ==
    /\ \A k \in DOMAIN intervention_scores :
          \E i \in DOMAIN session_transcript :
             /\ session_transcript[i].turn = intervention_scores[k].turn
             /\ session_transcript[i].speaker \in Patients
    /\ \A i \in 1..(Len(session_transcript) - 1) :
          session_transcript[i].speaker = "Therapist"
          => session_transcript[i + 1].speaker # "AI_Facilitator"
    /\ conversation_structure # "LLM with Triggers"
       => /\ ~FacilitatorSpoke
          /\ intervention_scores = <<>>
          /\ trigger_log = <<>>
          /\ intervention_count = 0
          /\ scored_interventions_rejected = 0
          /\ triggers_detected = <<>>

C18_Witness ==
    /\ conversation_structure = "LLM with Triggers"
    /\ selected_trigger = "Direct Intervention Request"
    /\ Len(session_transcript) >= 2
    /\ session_transcript[1].speaker = "Therapist"
    /\ session_transcript[1].dialogue = HelpReply
    /\ intervention_scores = <<>>

\* The personas that are eligible for the session's configuration.
EligiblePersonas ==
    IF conversation_structure = "LLM with Triggers" /\ selected_trigger # "All Triggers"
    THEN {p \in all_personas : p.trigger_type = selected_trigger}
    ELSE all_personas

NothingStarted ==
    /\ session_transcript = <<>>
    /\ conversation_history = <<>>
    /\ intervention_scores = <<>>
    /\ trigger_log = <<>>
    /\ current_turn_number = 1
    /\ participants = NoParticipants

\* C27: with fewer than two eligible personas the setup fails before the
\* loop starts: it raises, no turn is generated and the transcript stays
\* empty; a turn is generated only after a setup with at least two eligible
\* personas has returned the participants.
C27_SetupFailsWithoutTwoPersonas ==
    [][/\ (pc = "setup" /\ Cardinality(EligiblePersonas) < 2)
          => (pc' = "setup_failed" /\ NothingStarted')
       /\ pc' = "setup_failed" => (NothingStarted' /\ Cardinality(EligiblePersonas) < 2)
       /\ TurnTaken
          => /\ Cardinality(EligiblePersonas) >= 2
             /\ participants # NoParticipants]_vars

C27_Witness ==
    /\ pc = "setup_failed"
    /\ conversation_structure = "LLM with Triggers"
    /\ selected_trigger = "Semantic Analysis"
    /\ Cardinality(all_personas) = 3
    /\ session_transcript = <<>>

\* C33: in run_session_loop the detection runs after the current turn is in
\* the history, so the silence of the current speaker is always drawn from
\* 1..10 and a session of the time-based modality never detects a trigger,
\* never computes a score and never inserts a Facilitator turn.
SilenceOfNextTurn ==
    UNION {simulate_silence_duration(
              Append(conversation_history, full_log_entry(current_speaker, t)),
              current_speaker) : t \in ReplyTexts}
C33_TemporalNeverFiresInLoop ==
    (conversation_structure = "LLM with Triggers"
     /\ selected_trigger = "Time-based Analysis")
    => /\ triggers_detected = <<>>
       /\ intervention_score = NoScore
       /\ intervention_scores = <<>>
       /\ trigger_log = <<>>
       /\ intervention_count = 0
       /\ \A i \in DOMAIN session_transcript :
             session_transcript[i].speaker # "AI_Facilitator"
       /\ (pc = "loop" /\ current_speaker \in Patients) => SilenceOfNextTurn = 1..10
C33_Witness ==
    /\ conversation_structure = "LLM with Triggers"
    /\ selected_trigger = "Time-based Analysis"
    /\ pc = "done"
    /\ Len(session_transcript) = max_turns
    /\ \E i \in DOMAIN session_transcript :
          /\ session_transcript[i].speaker \in Patients
          /\ session_transcript[i].dialogue = LongReply

(***************************************************************************)
(* The functions called on their own: the state is one call and, once it   *)
(* returned, its result.                                                   *)
(***************************************************************************)
DimensionScores == {0, 100}
DecisionAverages ==
    {Num(0, 1), Num(50, 1), Num(279, 4), Num(69999, 1000), Num(70, 1), Num(281, 4),
     Num(100, 1), MissingAverage}
\* The score records should_intervene is called with (main.py:182 has raised
\* before the call for a value that is no dict or whose average is no number).
DecisionScores ==
    {[type |-> "dict", flow_disruption |-> f, therapeutic_need |-> n, timing |-> 50,
      impact |-> 50, average |-> a, recommendation |-> r] :
        f \in DimensionScores, n \in DimensionScores, a \in DecisionAverages,
        r \in {"INTERVENE", "CONTINUE"}}

AttemptOutcomes ==
    {ApiOk(PlainReply), ApiOk(HelpReply), ApiRaise(ErrorPlain), ApiRaise(ErrorPage)}

\* The entries of the histories intelligent_speaker_selection is called with:
\* a turn of each role with the plain reply, a turn of Patient B whose text
\* mentions Patient A, and a Facilitator turn.
HistoryEntries ==
    {full_log_entry(n, PlainReply) : n \in {"Therapist", "Patient A", "Patient B"}}
    \cup {full_log_entry("Patient B", WithLabels(PlainReply, {"Patient A"})),
          full_log_entry("AI Facilitator", PlainReply)}

\* The histories the loop can hold when it selects a speaker: the Therapist
\* opens, and a Facilitator entry directly follows a participant's entry.
Histories ==
    {h \in UNION {[1..n -> HistoryEntries] : n \in 1..MaxHistory} :
        /\ h[1].name = "Therapist"
        /\ \A i \in DOMAIN h :
              h[i].name = "AI Facilitator" => (i > 1 /\ h[i - 1].name \in Patients)}

\* The speaker of the last ordinary turn, and whether the Facilitator spoke
\* after it (main.py:141, 215, 256-258).
LastSpeaker(h) ==
    IF h[Len(h)].name = "AI Facilitator" THEN h[Len(h) - 1].name ELSE h[Len(h)].name
FacilitatorLast(h) == h[Len(h)].name = "AI Facilitator"

\* The messages detect_triggers is called with, and the histories: they end
\* with the message (main.py:141, 154-159).
TriggerMessages ==
    {PlainReply, HelpReply, CrisisReply, LongReply, EscalationReply, HarmReply,
     EverySignalReply, FallbackText(ErrorPage), TwoKeywordReply, HundredWordReply}
TriggerHistoryPrefixes(speaker) ==
    {<<full_log_entry("Therapist", PlainReply)>>,
     <<full_log_entry("Therapist", PlainReply), full_log_entry(speaker, PlainReply)>>,
     [i \in 1..(QUANTITATIVE_CONSECUTIVE_THRESHOLD - 2) |->
         full_log_entry(speaker, PlainReply)],
     [i \in 1..(QUANTITATIVE_CONSECUTIVE_THRESHOLD - 1) |->
         full_log_entry(speaker, PlainReply)]}
\* The history at the call: with the message as its last entry (main.py:141)
\* or, as in backup/demo1.py:1030-1105 where the turn is logged after the
\* detection, without it.
TriggerHistories(speaker, message) ==
    TriggerHistoryPrefixes(speaker)
    \cup {Append(h, full_log_entry(speaker, message)) : h \in TriggerHistoryPrefixes(speaker)}

DetectTriggersCalls ==
    UNION {{[op |-> "detect_triggers", history |-> h, speaker |-> c[1],
             message |-> c[2], selected |-> sel] :
                h \in TriggerHistories(c[1], c[2]),
                sel \in TRIGGER_TYPES \cup {"No Trigger"}} :
           c \in Patients \X TriggerMessages}

\* The trigger lists detect_triggers can return, and the empty one.
TriggerLists ==
    {<<>>} \cup
    UNION {{detect_triggers(c.history, c.speaker, c.message, c.selected, sd) :
               sd \in SilenceDraws(c.history, c.speaker, c.selected)} :
           c \in DetectTriggersCalls}

\* The messages detect_emotional_escalation is called with: 0 to 2
\* keywords; no character, 1 uppercase of 60, 3 of 10, 31 of 100; 0 to 2 '!'.
CapsProfiles == {<<0, 0>>, <<1, 60>>, <<3, 10>>, <<31, 100>>}
EscalationMessages ==
    {[PlainReply EXCEPT !.escKw = k, !.upper = c[1], !.len = c[2], !.bangs = b,
                        !.words = IF c[2] = 0 THEN 0 ELSE 12] :
        k \in 0..2, c \in CapsProfiles, b \in 0..2}

\* Lines of a post-session text, as the model may answer:
\*   "Interested, curious about the other view, 4"
\*   "**Interested**, less so at the end, 2"
\*   "Uninterested, bored by the exchange, 6"
\*   "Upset, raised voice, 4/5"
\*   "Upset, 5"
\*   "Scared, 9 worries, 0 or 1 maybe"
\*   "Happy, relieved, 5"
\*   "Proud, stood their ground, <superscript two> 4"
\*   "Here are the ratings, one per line:"
\*   "Proud of the progress made"
PanasLines ==
    {Line(FALSE, 3, VocabularyName("Interested"), "curious", <<Digits(4)>>),
     Line(FALSE, 3, Name("**Interested**", "interested", <<"interested">>), "less so",
          <<Digits(2)>>),
     Line(FALSE, 3, Name("Uninterested", "uninterested", <<"interested">>), "bored",
          <<Digits(6)>>),
     Line(FALSE, 3, VocabularyName("Upset"), "raised voice", <<Word>>),
     Line(FALSE, 2, VocabularyName("Upset"), "5", <<Digits(5)>>),
     Line(FALSE, 3, VocabularyName("Scared"), "9 worries",
          <<Digits(0), Word, Digits(1), Word>>),
     Line(FALSE, 3, Name("Happy", "happy", <<>>), "relieved", <<Digits(5)>>),
     Line(FALSE, 3, VocabularyName("Proud"), "stood their ground",
          <<Superscript, Digits(4)>>),
     Line(TRUE, 2, Name("Here are the ratings", "here are the ratings", <<>>),
          "one per line:", <<Word, Word, Word>>),
     Line(FALSE, 1, Name("Proud of the progress made", "proud of the progress made",
                         <<"proud">>), "", <<Word, Word, Word, Word, Word>>)}
\* The texts: up to MaxLines of these lines, none of them twice.
PanasTexts ==
    {t \in UNION {[1..n -> PanasLines] : n \in 0..MaxLines} :
        \A i, j \in DOMAIN t : t[i] = t[j] => i = j}

\* Entries of a pre-recorded baseline: an integer score 1..5 and at most one
\* entry per emotion name.
BaselineNames ==
    {VocabularyName("Interested"), VocabularyName("Upset"),
     Name("Scared ", "scared", <<"scared">>), VocabularyName("Proud")}
BaselineEntries ==
    {[feeling |-> f, score |-> IF f.cleaned \in {"interested", "scared"} THEN 5 ELSE 2] :
        f \in BaselineNames}
Baselines ==
    {b \in UNION {[1..n -> BaselineEntries] : n \in 0..MaxLines} :
        \A i, j \in DOMAIN b :
           normalize_emotion_name(b[i].feeling) = normalize_emotion_name(b[j].feeling)
           => i = j}
\* The assessments parsed from the texts of fewer than MaxLines lines.
AfterAssessments == {parse_panas_output(t) : t \in {u \in PanasTexts : Len(u) < MaxLines}}

\* One patient's analysis with a baseline of one entry and a text of one
\* line for the same emotion:
\*   "<E>, shows curiosity, <s>"
\*   "<E>, was there for them, <s>"   (holds the skip word 'here')
\*   "<E>, curious, engaged, <s>"     (parts[2] is "engaged")
RoundTripLines(E, s) ==
    {Line(FALSE, 3, VocabularyName(E), "shows curiosity", <<Digits(s)>>),
     Line(TRUE, 3, VocabularyName(E), "was there for them", <<Digits(s)>>),
     Line(FALSE, 4, VocabularyName(E), "curious", <<Word>>)}
RoundTripCalls ==
    UNION {{[op |-> "run_panas_analysis",
             baseline |-> <<[feeling |-> VocabularyName(c[1]), score |-> c[2]]>>,
             panas_text |-> <<l>>] : l \in RoundTripLines(c[1], c[3])} :
           c \in Range(PANAS_POSITIVE \o PANAS_NEGATIVE) \X (1..5) \X (0..6)}

\* The deltas summarize_panas_changes is called with: one per baseline name,
\* the name as the baseline writes it ("INTERESTED" and "Scared " normalize
\* to vocabulary names and so may have a delta), in the order of a baseline
\* that lists the names as BaselineOrder does.
BaselineOrder == <<"Interested", "Proud", "Scared ", "Upset", "Afraid", "INTERESTED">>
DeltaEntries ==
    {[feeling |-> f, before_score |-> c[1], after_score |-> c[2],
      difference |-> c[2] - c[1]] :
        f \in Range(BaselineOrder), c \in {<<4, 2>>, <<3, 3>>, <<2, 5>>}}
PlaceInBaseline(d) == CHOOSE k \in DOMAIN BaselineOrder : BaselineOrder[k] = d.feeling
DeltaLists ==
    {d \in UNION {[1..n -> DeltaEntries] : n \in 0..MaxLines} :
        \A i, j \in DOMAIN d : i < j => PlaceInBaseline(d[i]) < PlaceInBaseline(d[j])}

Calls ==
    {[op |-> "should_intervene", score |-> sc] : sc \in DecisionScores}
    \cup {[op |-> "summarize_panas_changes", panas_delta |-> d] : d \in DeltaLists}
    \cup RoundTripCalls
    \cup {[op |-> "parse_panas_output", panas_text |-> t] : t \in PanasTexts}
    \cup {[op |-> "compute_panas_delta", before_emotions |-> b, after_emotions |-> a] :
            b \in Baselines, a \in AfterAssessments}
    \cup {[op |-> "intelligent_speaker_selection", history |-> h,
           speaker |-> LastSpeaker(h), occurred |-> FacilitatorLast(h)] : h \in Histories}
    \cup DetectTriggersCalls
    \cup {[op |-> "detect_emotional_escalation", message |-> m] : m \in EscalationMessages}
    \cup {[op |-> "count_consecutive_messages", history |-> h, speaker |-> sp] :
            h \in Histories \cup {<<>>}, sp \in {"Therapist", "Patient A", "Patient B"}}
    \cup {[op |-> "generate_intervention", triggers |-> t, attempt |-> a] :
            t \in TriggerLists, a \in {ApiOk(PlainReply), ApiRaise(ErrorPlain)}}
    \cup {[op |-> "generate_agent_turn", attempts |-> <<a, b, c>>] :
            a \in AttemptOutcomes, b \in AttemptOutcomes, c \in AttemptOutcomes}
    \cup {[op |-> "demo1_generate_agent_turn", attempts |-> <<a, b, c>>] :
            a \in AttemptOutcomes, b \in AttemptOutcomes, c \in AttemptOutcomes}
    \cup {[op |-> "calculate_intervention_score", response |-> r] : r \in ScoringResponses}

FnInit ==
    /\ conversation_structure = "Sequential"
    /\ selected_trigger = "No Trigger"
    /\ first_speaker = "Random"
    /\ all_personas = DefaultPersonas
    /\ participants = DefaultParticipants(selected_trigger)
    /\ max_turns = MaxTurns
    /\ session_transcript = <<>>
    /\ trigger_log = <<>>
    /\ intervention_scores = <<>>
    /\ intervention_count = 0
    /\ scored_interventions_rejected = 0
    /\ conversation_history = <<>>
    /\ current_turn_number = 1
    /\ current_speaker = "Therapist"
    /\ dialogue = EmptyText
    /\ triggers_detected = <<>>
    /\ intervention_score = NoScore
    /\ intervention = NotGenerated
    /\ intervention_occurred = FALSE
    /\ pc = "done"
    /\ call \in Calls
    /\ result = NoResult

sessionVars ==
    <<configVars, session_transcript, trigger_log, intervention_scores,
      intervention_count, scored_interventions_rejected, conversation_history,
      current_turn_number, current_speaker, dialogue, triggers_detected,
      intervention_score, intervention, intervention_occurred, pc>>

CallShouldIntervene ==
    /\ call.op = "should_intervene"
    /\ result = NoResult
    /\ result' = [op |-> call.op, decision |-> should_intervene(call.score)]
    /\ UNCHANGED <<sessionVars, call>>

CallGenerateAgentTurn ==
    /\ call.op = "generate_agent_turn"
    /\ result = NoResult
    /\ result' = [op |-> call.op, turn |-> generate_agent_turn(call.attempts)]
    /\ UNCHANGED <<sessionVars, call>>

CallDemo1GenerateAgentTurn ==
    /\ call.op = "demo1_generate_agent_turn"
    /\ result = NoResult
    /\ result' = [op |-> call.op, turn |-> demo1_generate_agent_turn(call.attempts)]
    /\ UNCHANGED <<sessionVars, call>>

CallCalculateInterventionScore ==
    /\ call.op = "calculate_intervention_score"
    /\ result = NoResult
    /\ result' = [op |-> call.op, score |-> calculate_intervention_score(call.response)]
    /\ UNCHANGED <<sessionVars, call>>

CallIntelligentSpeakerSelection ==
    /\ call.op = "intelligent_speaker_selection"
    /\ result = NoResult
    /\ \E next_speaker \in
            intelligent_speaker_selection(call.history, call.speaker, call.occurred) :
          result' = [op |-> call.op, speaker |-> next_speaker]
    /\ UNCHANGED <<sessionVars, call>>

CallDetectTriggers ==
    /\ call.op = "detect_triggers"
    /\ result = NoResult
    /\ \E silence_duration \in SilenceDraws(call.history, call.speaker, call.selected) :
          result' = [op |-> call.op,
                     silence |-> silence_duration,
                     triggers |-> detect_triggers(call.history, call.speaker, call.message,
                                                  call.selected, silence_duration)]
    /\ UNCHANGED <<sessionVars, call>>

CallDetectEmotionalEscalation ==
    /\ call.op = "detect_emotional_escalation"
    /\ result = NoResult
    /\ result' = [op |-> call.op, escalation |-> detect_emotional_escalation(call.message)]
    /\ UNCHANGED <<sessionVars, call>>

CallCountConsecutiveMessages ==
    /\ call.op = "count_consecutive_messages"
    /\ result = NoResult
    /\ result' = [op |-> call.op,
                  count |-> count_consecutive_messages(call.history, call.speaker)]
    /\ UNCHANGED <<sessionVars, call>>

CallGenerateIntervention ==
    /\ call.op = "generate_intervention"
    /\ result = NoResult
    /\ result' = [op |-> call.op,
                  template |-> IF call.triggers = <<>> THEN "none"
                               ELSE guidance_template(call.triggers),
                  intervention |-> generate_intervention(call.triggers, call.attempt)]
    /\ UNCHANGED <<sessionVars, call>>

CallParsePanasOutput ==
    /\ call.op = "parse_panas_output"
    /\ result = NoResult
    /\ result' = [op |-> call.op, emotions |-> parse_panas_output(call.panas_text)]
    /\ UNCHANGED <<sessionVars, call>>

CallComputePanasDelta ==
    /\ call.op = "compute_panas_delta"
    /\ result = NoResult
    /\ result' = [op |-> call.op,
                  delta |-> compute_panas_delta(call.before_emotions, call.after_emotions)]
    /\ UNCHANGED <<sessionVars, call>>

\* main.py:295-299 (and 318-322 for Patient B).
CallRunPanasAnalysis ==
    /\ call.op = "run_panas_analysis"
    /\ result = NoResult
    /\ LET after_panas == parse_panas_output(call.panas_text)
       IN  result' = [op |-> call.op, after_panas |-> after_panas,
                      panas_delta |-> compute_panas_delta(call.baseline, after_panas)]
    /\ UNCHANGED <<sessionVars, call>>

\* main.py:301-306: the vocabularies are passed in lower case.
CallSummarizePanasChanges ==
    /\ call.op = "summarize_panas_changes"
    /\ result = NoResult
    /\ result' = [op |-> call.op,
                  summary |-> summarize_panas_changes(
                                 call.panas_delta,
                                 {Lower(e) : e \in Range(PANAS_POSITIVE)},
                                 {Lower(e) : e \in Range(PANAS_NEGATIVE)})]
    /\ UNCHANGED <<sessionVars, call>>

FnNext ==
    \/ CallShouldIntervene
    \/ CallSummarizePanasChanges
    \/ CallRunPanasAnalysis
    \/ CallParsePanasOutput
    \/ CallComputePanasDelta
    \/ CallIntelligentSpeakerSelection
    \/ CallDetectTriggers
    \/ CallDetectEmotionalEscalation
    \/ CallCountConsecutiveMessages
    \/ CallGenerateIntervention
    \/ CallGenerateAgentTurn
    \/ CallDemo1GenerateAgentTurn
    \/ CallCalculateInterventionScore

FnSpec == FnInit /\ [][FnNext]_vars

\* C6: should_intervene(score) is true iff the score's average is >=
\* INTERVENTION_THRESHOLD (inclusive; a missing average counts as 0), whatever
\* the recommendation and the four dimension scores are.
C6_DecisionIsThresholdOnAverage ==
    result.op = "should_intervene"
    => (result.decision
        <=> /\ call.score.average.tag = "num"
            /\ call.score.average.num >= INTERVENTION_THRESHOLD * call.score.average.den)

C6_Witness ==
    /\ result.op = "should_intervene"
    /\ call.score.average = Num(70, 1)
    /\ call.score.recommendation = "CONTINUE"
    /\ call.score.flow_disruption = 0
    /\ result.decision

\* C9: generate_agent_turn calls the collaborator up to 3 times: it returns
\* the text of the first attempt that succeeds, and the fixed apology text
\* only after the third consecutive failure.
C9_ThreeAttemptsThenApology ==
    result.op = "generate_agent_turn"
    => LET succeeded == {i \in 1..3 : call.attempts[i].ok} IN
       IF succeeded = {}
       THEN result.turn.text = TechnicalIssueText /\ result.turn.calls = 3
       ELSE \E i \in succeeded :
               /\ \A j \in succeeded : i <= j
               /\ result.turn.text = call.attempts[i].text
               /\ result.turn.calls = i

\* C12: intelligent_speaker_selection never returns the speaker passed as
\* current_speaker, with and without an intervention.
C12_NeverCurrentSpeaker ==
    result.op = "intelligent_speaker_selection" => result.speaker # call.speaker

\* How many of the last 6 entries of history h are turns of role r.
EntriesAmongLastSix(h, r) ==
    LET recent == LastN(h, 6)
    IN  Cardinality({i \in DOMAIN recent : recent[i].name = r})

\* What C13 says the selection returns without an intervention.
BalanceSeekingChoice(h, speaker) ==
    IF /\ EntriesAmongLastSix(h, "Therapist") < 2
       /\ Len(h) > 4
       /\ speaker # "Therapist"
    THEN {"Therapist"}
    ELSE IF speaker \in Patients THEN Patients \ {speaker}
    ELSE IF EntriesAmongLastSix(h, "Patient A") <= EntriesAmongLastSix(h, "Patient B")
         THEN {"Patient A"}
         ELSE {"Patient B"}

\* C13: without an intervention the selection returns the Therapist when the
\* Therapist has fewer than 2 of the last 6 entries, the history has more
\* than 4 entries and the Therapist did not just speak; otherwise a
\* participant other than the current speaker, the one with fewer of the
\* last 6 entries when both are candidates (Patient A on a tie).
C13_BalanceSeeking ==
    (result.op = "intelligent_speaker_selection" /\ ~call.occurred)
    => result.speaker \in BalanceSeekingChoice(call.history, call.speaker)

\* No text of the history holds a role label.
LabelFree(h) == \A i \in DOMAIN h : h[i].text.labels = {}

\* What the code does keep of C13: the rule holds for the histories whose
\* texts mention no role label.
C13_BalanceSeekingOnLabelFreeHistories ==
    (result.op = "intelligent_speaker_selection" /\ ~call.occurred
     /\ LabelFree(call.history))
    => result.speaker \in BalanceSeekingChoice(call.history, call.speaker)

\* C19: for a single selected modality every trigger detect_triggers returns
\* carries that modality's type, and for 'No Trigger' it returns the empty
\* list, whatever the message and the history.
C19_OnlyConfiguredModality ==
    result.op = "detect_triggers"
    => /\ call.selected \in TRIGGER_TYPES \ {"All Triggers"}
          => \A i \in DOMAIN result.triggers : result.triggers[i].type = call.selected
       /\ call.selected = "No Trigger" => result.triggers = <<>>

C19_Witness ==
    /\ result.op = "detect_triggers"
    /\ call.selected = "Quantitative Analysis"
    /\ call.message = EverySignalReply
    /\ Len(call.history) = QUANTITATIVE_CONSECUTIVE_THRESHOLD
    /\ Len(result.triggers) = 2

IsSemantic(t) == t.type = "Semantic Analysis"

\* C20: with the semantic modality, a message that holds a self-harm keyword
\* yields exactly one semantic trigger, the self-harm one marked CRITICAL,
\* also when it shows escalation; an escalation trigger is returned only for
\* a message without self-harm keyword.
C20_SelfHarmTakesPrecedence ==
    (result.op = "detect_triggers" /\ call.selected \in {"Semantic Analysis", "All Triggers"})
    => LET semantic == SelectSeq(result.triggers, IsSemantic) IN
       /\ call.selected = "Semantic Analysis" => result.triggers = semantic
       /\ call.message.harm
          => /\ Len(semantic) = 1
             /\ semantic[1].subtype = "Self-Harm Language"
             /\ semantic[1].severity = "CRITICAL"
       /\ \A i \in DOMAIN semantic :
             semantic[i].subtype = "Emotional Escalation" => ~call.message.harm

C20_Witness ==
    /\ result.op = "detect_triggers"
    /\ call.selected = "Semantic Analysis"
    /\ call.message = CrisisReply
    /\ detect_emotional_escalation(call.message)
    /\ Len(result.triggers) = 1
    /\ result.triggers[1].severity = "CRITICAL"

\* How many of the three escalation indicators a message shows: some
\* escalation keyword, an uppercase ratio above 0.3, two or more '!'.
EscalationIndicators(m) ==
    (IF m.escKw > 0 THEN 1 ELSE 0)
    + (IF m.len > 0 /\ 10 * m.upper > 3 * m.len THEN 1 ELSE 0)
    + (IF m.bangs >= 2 THEN 1 ELSE 0)

HasSubtype(triggers, subtype) ==
    \E i \in DOMAIN triggers : triggers[i].subtype = subtype

\* C21: with 'All Triggers', a message that holds a self-harm keyword and
\* shows escalation is reported as both: the list holds a self-harm trigger
\* and an escalation trigger.
C21_BothReportedWithAllTriggers ==
    (/\ result.op = "detect_triggers"
     /\ call.selected = "All Triggers"
     /\ call.message.harm
     /\ EscalationIndicators(call.message) >= 2)
    => /\ HasSubtype(result.triggers, "Self-Harm Language")
       /\ HasSubtype(result.triggers, "Emotional Escalation")

\* C22: detect_emotional_escalation is true iff at least 2 of the 3
\* indicators hold.
C22_EscalationIffTwoIndicators ==
    result.op = "detect_emotional_escalation"
    => (result.escalation <=> EscalationIndicators(call.message) >= 2)

\* The length of the longest suffix of h whose entries all match the label.
SuffixMatchCount(h, label) ==
    LET AllMatch(k) == \A i \in (Len(h) - k + 1)..Len(h) : Contains(h[i], label)
    IN  CHOOSE k \in 0..Len(h) : AllMatch(k) /\ \A j \in (k + 1)..Len(h) : ~AllMatch(j)

\* C23: with the quantitative modality detect_triggers returns a
\* message-dominance trigger iff the consecutive-message count is >= 6 and
\* an information-overload trigger iff the word count is > 100, dominance
\* first, and nothing else.
C23_QuantitativeTriggers ==
    (result.op = "detect_triggers" /\ call.selected = "Quantitative Analysis")
    => LET consecutive == SuffixMatchCount(call.history, call.speaker)
           words == call.message.words
       IN  result.triggers =
              (IF consecutive >= 6
               THEN <<[type |-> "Quantitative Analysis", subtype |-> "Message Dominance",
                       value |-> consecutive]>>
               ELSE <<>>)
              \o (IF words > 100
                  THEN <<[type |-> "Quantitative Analysis",
                          subtype |-> "Information Overload", value |-> words]>>
                  ELSE <<>>)

C23_Witness ==
    /\ result.op = "detect_triggers"
    /\ call.selected = "Quantitative Analysis"
    /\ call.message = LongReply
    /\ Len(result.triggers) = 2
    /\ result.triggers[1].subtype = "Message Dominance"
    /\ result.triggers[2].value = 101

\* The speaker has an entry among the last 3 entries of the history.
SpokeRecently(h, speaker) ==
    \E i \in DOMAIN h : i > Len(h) - 3 /\ Contains(h[i], speaker)

TemplateOfSubtype(subtype) ==
    CASE subtype = "Help Request" -> {"help request"}
      [] subtype = "Emotional Escalation" -> {"de-escalate"}
      [] subtype = "Extended Silence" -> {"check in"}
      [] subtype = "Message Dominance" -> {"balance"}
      [] subtype = "Information Overload" -> {"simplify"}
      [] OTHER -> {"help request", "de-escalate", "check in", "balance", "simplify"}

\* C26: the guidance template is the one of the first trigger's kind, for
\* every kind of trigger detect_triggers returns, and never the generic one.
C26_TemplateOfFirstTrigger ==
    (result.op = "generate_intervention" /\ call.triggers # <<>>)
    => /\ result.template # "generic"
       /\ result.template \in TemplateOfSubtype(call.triggers[1].subtype)

\* C28: parse_panas_output returns an ordered collection with at most one
\* entry per emotion name, each name one of the 20 of the vocabulary and the
\* entry that of the first parsed line with the name, and every score an
\* integer in 1..5: the first number in 1..5 among the tokens of the score
\* field, or 3 when there is none.
ParsedLines(panas_text) ==
    {i \in DOMAIN panas_text :
        /\ ~panas_text[i].skipped
        /\ panas_text[i].parts >= 2
        /\ normalize_emotion_name(panas_text[i].emotion_raw) \in Range(emotion_map)}
FirstParsedLine(panas_text, key) ==
    LET hits == {i \in ParsedLines(panas_text) :
                    normalize_emotion_name(panas_text[i].emotion_raw) = key}
    IN  CHOOSE i \in hits : \A j \in hits : i <= j
ScoreOfField(score_str) ==
    LET ok == {i \in DOMAIN score_str :
                  /\ score_str[i].isdigit /\ score_str[i].literal
                  /\ score_str[i].int \in 1..5}
    IN  IF ok = {} THEN 3 ELSE score_str[CHOOSE i \in ok : \A j \in ok : i <= j].int
C28_ParsedAssessment ==
    (result # NoResult /\ result.op = "parse_panas_output")
    => LET text == call.panas_text
           emotions == result.emotions
           key(i) == Lower(emotions[i].feeling.text)
       IN  /\ \A i, j \in DOMAIN emotions : key(i) = key(j) => i = j
           /\ \A i \in DOMAIN emotions :
                 /\ emotions[i].feeling.text \in Range(PANAS_POSITIVE \o PANAS_NEGATIVE)
                 /\ emotions[i].score \in 1..5
                 /\ \E l \in ParsedLines(text) :
                       /\ l = FirstParsedLine(text, key(i))
                       /\ emotions[i].score = ScoreOfField(text[l].score_str)
                       /\ emotions[i].explanation = text[l].explanation
           /\ \A l \in ParsedLines(text) :
                 \E i \in DOMAIN emotions :
                    key(i) = normalize_emotion_name(text[l].emotion_raw)
           /\ \A i, j \in DOMAIN emotions :
                 i < j => FirstParsedLine(text, key(i)) < FirstParsedLine(text, key(j))

\* C29: compute_panas_delta emits, for each baseline entry and in baseline
\* order, one delta {name, before, after, after - before} exactly when the
\* entry's normalized name is the normalized name of some post-session
\* entry; a baseline entry without counterpart gives no delta.
MatchedBaseline(before_emotions, after_emotions) ==
    {i \in DOMAIN before_emotions :
        \E j \in DOMAIN after_emotions :
           normalize_emotion_name(after_emotions[j].feeling)
             = normalize_emotion_name(before_emotions[i].feeling)}
C29_DeltaPerMatchedBaselineEntry ==
    (result # NoResult /\ result.op = "compute_panas_delta")
    => LET before == call.before_emotions
           after == call.after_emotions
           delta == result.delta
           matched == MatchedBaseline(before, after)
           Rank(i) == Cardinality({k \in matched : k <= i})
       IN  /\ Len(delta) = Cardinality(matched)
           /\ \A i \in matched :
                 \E j \in DOMAIN after :
                    /\ normalize_emotion_name(after[j].feeling)
                         = normalize_emotion_name(before[i].feeling)
                    /\ delta[Rank(i)] =
                         [feeling |-> before[i].feeling.text,
                          before_score |-> before[i].score,
                          after_score |-> after[j].score,
                          difference |-> after[j].score - before[i].score]
C29_Witness ==
    /\ result # NoResult /\ result.op = "compute_panas_delta"
    /\ Len(call.before_emotions) = 3
    /\ Cardinality(MatchedBaseline(call.before_emotions, call.after_emotions)) = 2
    /\ 2 \notin MatchedBaseline(call.before_emotions, call.after_emotions)
    /\ Len(result.delta) = 2
    /\ result.delta[1].difference < 0
    /\ result.delta[2].difference > 0

\* C30: the delta never has more entries than the post-session assessment
\* nor than the baseline.
C30_DeltaNoLongerThanEither ==
    (result # NoResult /\ result.op = "compute_panas_delta")
    => /\ Len(result.delta) <= Len(call.after_emotions)
       /\ Len(result.delta) <= Len(call.before_emotions)
C30_Witness ==
    /\ result # NoResult /\ result.op = "compute_panas_delta"
    /\ Len(call.before_emotions) = 3
    /\ Len(call.after_emotions) = 2
    /\ Len(result.delta) = 2

\* C31: a baseline holding the single entry (E, b) and a text holding the
\* line 'E, rationale, s', for a vocabulary emotion E and b, s in 1..5, give
\* exactly one delta: feeling E, before b, after s, difference s - b.
LineOfScore(line) ==
    /\ ~line.skipped
    /\ line.parts = 3
    /\ Len(line.score_str) = 1
    /\ line.score_str[1] \in {Digits(n) : n \in 1..5}
RECURSIVE SumOver(_, _)
SumOver(delta, indices) ==
    IF indices = {} THEN 0
    ELSE LET i == CHOOSE k \in indices : TRUE
         IN  delta[i].difference + SumOver(delta, indices \ {i})
NamedIn(delta, vocabulary) ==
    {i \in DOMAIN delta : \E k \in DOMAIN vocabulary :
        Lower(delta[i].feeling) = Lower(vocabulary[k])}
C32_SummaryPerVocabulary ==
    (result # NoResult /\ result.op = "summarize_panas_changes")
    => LET delta == call.panas_delta
           pos == NamedIn(delta, PANAS_POSITIVE)
           neg == NamedIn(delta, PANAS_NEGATIVE)
       IN  /\ result.summary.positive_emotion_change = SumOver(delta, pos)
           /\ result.summary.negative_emotion_change = SumOver(delta, neg)
           /\ result.summary.num_improved_positive
                = Cardinality({i \in pos : delta[i].difference > 0})
           /\ result.summary.num_improved_negative
                = Cardinality({i \in neg : delta[i].difference < 0})
           /\ result.summary.net_change = SumOver(delta, pos \cup neg)
C32_Witness ==
    /\ result # NoResult /\ result.op = "summarize_panas_changes"
    /\ Len(call.panas_delta) = 3
    /\ call.panas_delta[1].feeling = "Proud" /\ call.panas_delta[1].difference = 3
    /\ call.panas_delta[2].feeling = "Scared " /\ call.panas_delta[2].difference = -2
    /\ call.panas_delta[3].feeling = "Upset" /\ call.panas_delta[3].difference = -2
    /\ result.summary.positive_emotion_change = 3
    /\ result.summary.negative_emotion_change = -2
    /\ result.summary.num_improved_positive = 1
    /\ result.summary.num_improved_negative = 1

\* C34: in an 'LLM with Triggers' session whose history entries are matched
\* by their speaker label (no text holds a role label), the consecutive
\* count computed for the current speaker is exactly 1, so the
\* message-dominance trigger never fires.
HistoryAtDetection ==
    IF intervention_occurred'
    THEN SubSeq(conversation_history', 1, Len(conversation_history') - 1)
    ELSE conversation_history'
ConsecutiveCountIsOne ==
    (/\ TurnTaken
     /\ conversation_structure = "LLM with Triggers"
     /\ current_speaker \in Patients)
    => /\ count_consecutive_messages(HistoryAtDetection, current_speaker) = 1
       /\ ~HasSubtype(triggers_detected', "Message Dominance")
C34_ConsecutiveCountAlwaysOne ==
    [][LabelFree(conversation_history') => ConsecutiveCountIsOne]_vars
\* The same without the premise: an entry whose text mentions the speaker's
\* label is counted too.
C34_ConsecutiveCountWhateverTheTexts == [][ConsecutiveCountIsOne]_vars
C34_Witness ==
    /\ conversation_structure = "LLM with Triggers"
    /\ LabelFree(conversation_history)
    /\ \E i \in DOMAIN session_transcript :
          /\ i + 2 <= Len(session_transcript)
          /\ session_transcript[i].speaker \in Patients
          /\ session_transcript[i + 1].speaker = "AI_Facilitator"
          /\ session_transcript[i + 2].speaker = session_transcript[i].speaker

\* C35: run_session_loop ends after at most max_turns iterations, whatever
\* the collaborators return, and the final transcript has max_turns entries,
\* or max_turns + 1 when the iteration of turn max_turns inserted a
\* Facilitator turn.
OrdinaryTurns ==
    Cardinality({i \in DOMAIN session_transcript :
                    session_transcript[i].speaker # "AI_Facilitator"})
FinalTranscriptLength ==
    LET n == Len(session_transcript)
    IN  \/ n = max_turns
        \/ /\ n = max_turns + 1
           /\ session_transcript[n].speaker = "AI_Facilitator"
           /\ session_transcript[n - 1].turn = max_turns
C35_EndsWithFullTranscript ==
    /\ OrdinaryTurns <= max_turns
    /\ pc # "loop" => FinalTranscriptLength
\* What the code does keep of C35: the runs that return, and the end of
\* every run.
C35_FullTranscriptOnReturn ==
    /\ OrdinaryTurns <= max_turns
    /\ pc = "done" => FinalTranscriptLength
C35_LoopEnds == <>(pc # "loop")

\* C36: after every loop iteration intervention_count is the number of
\* AI_Facilitator entries of the transcript and the number of trigger_log
\* entries, and intervention_count + scored_interventions_rejected is at most
\* the number of intervention_scores entries, equal to it exactly when no
\* generation of an intervention text has failed so far.
FailedGenerations ==
    {i \in DOMAIN intervention_scores :
        /\ AverageReachesThreshold(intervention_scores[i].score)
        /\ \A k \in DOMAIN trigger_log :
              trigger_log[k].turn # intervention_scores[i].turn}
C36_CountersAgree ==
    pc \in {"loop", "done"}
    => /\ intervention_count
            = Cardinality({i \in DOMAIN session_transcript :
                              session_transcript[i].speaker = "AI_Facilitator"})
       /\ intervention_count = Len(trigger_log)
       /\ intervention_count + scored_interventions_rejected <= Len(intervention_scores)
       /\ (intervention_count + scored_interventions_rejected = Len(intervention_scores))
             <=> (FailedGenerations = {})
C36_Witness ==
    /\ pc = "loop"
    /\ Len(intervention_scores) = 1
    /\ FailedGenerations = {1}
    /\ intervention_count = 0
    /\ scored_interventions_rejected = 0
C36_WitnessOfEquality ==
    /\ pc = "done"
    /\ Len(intervention_scores) = 1
    /\ intervention_count = 1
    /\ Len(trigger_log) = 1

\* C37: in 'LLM Only' mode, whatever the first speaker, every five
\* consecutive turns of the transcript include a Therapist turn: there are
\* never more than four participant turns in a row.
FiveTurnsIncludeTherapist(transcript) ==
    \A i \in DOMAIN transcript :
       i + 4 <= Len(transcript)
       => \E k \in i..(i + 4) : transcript[k].speaker = "Therapist"
C37_TherapistEveryFiveTurns ==
    conversation_structure = "LLM Only" => FiveTurnsIncludeTherapist(session_transcript)
\* What the code does keep of C37: the sessions whose texts mention no role
\* label.
C37_TherapistEveryFiveTurnsOnLabelFreeHistories ==
    (conversation_structure = "LLM Only" /\ LabelFree(conversation_history))
    => FiveTurnsIncludeTherapist(session_transcript)

\* C38: in intelligent_speaker_selection the random fallback is reached for
\* no current speaker among Therapist, Patient A and Patient B: the call has
\* one possible return, which is decided by the last 6 history entries, the
\* current speaker and the intervention flag.
C38_SelectionIsDeterministic ==
    (result # NoResult /\ result.op = "intelligent_speaker_selection")
    => /\ \A sp \in {"Therapist", "Patient A", "Patient B"}, occ \in BOOLEAN :
             /\ Cardinality(intelligent_speaker_selection(call.history, sp, occ)) = 1
             /\ intelligent_speaker_selection(call.history, sp, occ)
                  = intelligent_speaker_selection(LastN(call.history, 6), sp, occ)
       /\ intelligent_speaker_selection(call.history, call.speaker, call.occurred)
            = {result.speaker}
C38_Witness ==
    /\ result # NoResult /\ result.op = "intelligent_speaker_selection"
    /\ call.speaker = "Therapist"
    /\ ~call.occurred
    /\ Len(call.history) = MaxHistory
    /\ result.speaker = "Patient B"

EligibleNames == {p.name : p \in EligiblePersonas}
C40_TwoDifferentAvailablePersonas ==
    [][pc = "setup"
       => \/ /\ pc' = "loop"
             /\ participants'.patient_A \in EligibleNames
             /\ participants'.patient_B \in EligibleNames
             /\ participants'.patient_A # participants'.patient_B
          \/ /\ pc' = "setup_failed"
             /\ participants' = NoParticipants]_vars
C40_Witness ==
    /\ pc = "loop"
    /\ conversation_structure = "LLM with Triggers"
    /\ selected_trigger = "Direct Intervention Request"
    /\ Cardinality(all_personas) = 3
    /\ participants.patient_A = PersonaName("Direct Intervention Request", 2)
    /\ participants.patient_B = PersonaName("Direct Intervention Request", 1)
====
